---- MODULE Spec2Model ----
(***************************************************************************)
(* wallbox-mqtt-bridge: the OCPP status resolver (app/wallbox) and the     *)
(* polling loop of RunBridge (mismatch detector, healing controller,       *)
(* pilot-error safety net, publishing).                                    *)
(*                                                                         *)
(* Time is counted in seconds.  The zero time.Time is Zero; every value    *)
(* time.Now() returns is greater.  One tick of the polling loop advances   *)
(* the clock by the configured polling interval; the source tasks (journal *)
(* watcher, redis subscription) stamp their observations with the clock.   *)
(***************************************************************************)
EXTENDS Integers, Sequences, FiniteSets, TLC

VARIABLES
    clock,                  \* time.Now()
    c,                      \* c.Settings, after RunBridge applied the defaults
    \* ---- wallbox.Wallbox
    HasTelemetry,           \* w.HasTelemetry
    telControlPilotStatus,  \* w.Data.RedisTelemetry.ControlPilotStatus
    telOCPPStatus,          \* w.Data.RedisTelemetry.OCPPStatus
    telemetryOCPPStatus,    \* session-event slot: code
    telemetryOCPPUpdated,   \* session-event slot: time of the last update
    journalOCPPStatus,      \* journal slot: code
    journalOCPPUpdated,     \* journal slot: time of the last update
    \* ---- locals of RunBridge the polling loop closes over
    ocppMismatchState,
    mismatchStart,
    lastRestart,
    ocppRestartCount,
    lastFullReboot,
    pilotErrorStart,
    lastPilotErrorReboot,
    ocppLastRestart,
    ocppLastHealAction,
    ocppLastHealError,
    ocppLastHealAt,
    ocppLastHealDetail,
    \* ---- what the last tick did (observation of the handler's run)
    tick,
    pendingReboots,         \* reboot goroutines spawned and not yet run
    \* ---- the last line or session event a source task handled, with what
    \* ---- the parser or classifier returned for it (observation)
    event,
    \* ---- the journal watcher task: its position, its journalctl process,
    \* ---- whether it was told to stop
    watcher,
    \* ---- w.ocppStatusMux and the goroutines that use it, statement by
    \* ---- statement
    mux,
    \* ---- the polling loop's position inside the tick, with the locals of
    \* ---- the tick (now, pilotConnected, ocppCode, ...)
    loop,
    \* ---- w.journalStopCh, the channels made for it and the watcher
    \* ---- goroutines started, each with the channel it selects on
    lifecycle

wvars == <<HasTelemetry, telControlPilotStatus, telOCPPStatus,
           telemetryOCPPStatus, telemetryOCPPUpdated,
           journalOCPPStatus, journalOCPPUpdated>>

hvars == <<ocppMismatchState, mismatchStart, lastRestart, ocppRestartCount,
           lastFullReboot, pilotErrorStart, lastPilotErrorReboot,
           ocppLastRestart, ocppLastHealAction, ocppLastHealError,
           ocppLastHealAt, ocppLastHealDetail>>

\* the goroutines statement by statement
cvars == <<mux, loop, lifecycle>>

vars == <<clock, c, wvars, hvars, tick, pendingReboots, event, watcher, cvars>>

----------------------------------------------------------------------------
(* Bounds of the model *)

\* first value of the clock (any time after the zero time)
StartTime == 1
\* ticks of the polling loop explored by Spec
MaxTicks == 5
\* ticks of the polling loop explored by SpecSources
MaxSourceTicks == 3
\* ticks of the polling loop explored by SpecScenario
MaxScenarioTicks == 120
\* ticks of the polling loop explored by SpecEvents
MaxEventTicks == 1
\* journal lines and session messages handled in SpecEvents
MaxEvents == 2
\* lines journalctl prints in SpecWatcher
MaxWatcherLines == 2
\* ticks of the polling loop explored by SpecReappear
MaxReappearTicks == 6
\* calls of StartOCPPJournalWatcher that start a watcher in SpecLifecycle
MaxWatcherStarts == 2
\* ticks of the polling loop explored by SpecLegacy
MaxLegacyTicks == 2
\* ticks of the polling loop explored by SpecSteps
MaxStepTicks == 3
\* ticks of the polling loop explored by SpecExit
MaxExitTicks == 2
\* calls of the source goroutines, rounds of reads of the polling loop and
\* seconds that pass in SpecMux
MaxMuxCalls == 3
MaxMuxReads == 1
MaxMuxTime == 1

----------------------------------------------------------------------------
(* Program constants *)

\* time.Time{}: the zero time, for which IsZero() holds
Zero == 0

\* 10*time.Minute, the staleness window of the journal and session slots
StaleAfter == 600

DefaultOCPPMismatchSeconds == 60
DefaultOCPPRestartCooldown == 600
DefaultOCPPMaxRestarts == 3
DefaultPilotErrorSeconds == 300

\* the control pilot fault code the safety net watches
PilotErrorCode == 14

IsZero(t) == t = Zero

\* now.Format(time.RFC3339); the publishers' initial text is "never"
Never == <<"never">>
FormatRFC3339(t) == <<"RFC3339", t>>

----------------------------------------------------------------------------
(* Strings the classifier inspects are sequences of characters *)

ToLowerChar(ch) ==
    LET up == "A" :> "a" @@ "B" :> "b" @@ "C" :> "c" @@ "D" :> "d" @@ "E" :> "e"
           @@ "F" :> "f" @@ "G" :> "g" @@ "H" :> "h" @@ "I" :> "i" @@ "J" :> "j"
           @@ "K" :> "k" @@ "L" :> "l" @@ "M" :> "m" @@ "N" :> "n" @@ "O" :> "o"
           @@ "P" :> "p" @@ "Q" :> "q" @@ "R" :> "r" @@ "S" :> "s" @@ "T" :> "t"
           @@ "U" :> "u" @@ "V" :> "v" @@ "W" :> "w" @@ "X" :> "x" @@ "Y" :> "y"
           @@ "Z" :> "z"
    IN  IF ch \in DOMAIN up THEN up[ch] ELSE ch

ToLower(s) == [i \in 1..Len(s) |-> ToLowerChar(s[i])]

RECURSIVE ReplaceAllChar(_, _)
\* strings.ReplaceAll(s, ch, "")
ReplaceAllChar(s, ch) ==
    IF s = <<>> THEN <<>>
    ELSE IF Head(s) = ch THEN ReplaceAllChar(Tail(s), ch)
    ELSE <<Head(s)>> \o ReplaceAllChar(Tail(s), ch)

IsSpaceChar(ch) == ch \in {" ", "\t", "\n", "\r"}

RECURSIVE TrimLeft(_)
TrimLeft(s) ==
    IF s # <<>> /\ IsSpaceChar(Head(s)) THEN TrimLeft(Tail(s)) ELSE s

RECURSIVE TrimRight(_)
TrimRight(s) ==
    IF s # <<>> /\ IsSpaceChar(s[Len(s)]) THEN TrimRight(SubSeq(s, 1, Len(s) - 1)) ELSE s

\* strings.TrimSpace
TrimSpace(s) == TrimRight(TrimLeft(s))

\* strings.HasPrefix
HasPrefix(s, p) == Len(s) >= Len(p) /\ SubSeq(s, 1, Len(p)) = p

\* strings.Contains
Contains(s, substr) ==
    \E i \in 1..(Len(s) - Len(substr) + 1) : SubSeq(s, i, i + Len(substr) - 1) = substr

\* \s of package regexp
IsRegexpSpace(ch) == ch \in {" ", "\t", "\n", "\f", "\r"}

RECURSIVE SkipSpaces(_, _)
\* the position after the longest run of \s that starts at i
SkipSpaces(s, i) ==
    IF i <= Len(s) /\ IsRegexpSpace(s[i]) THEN SkipSpaces(s, i + 1) ELSE i

RECURSIVE SkipNonQuotes(_, _)
\* the position after the longest run of [^"] that starts at i
SkipNonQuotes(s, i) ==
    IF i <= Len(s) /\ s[i] # "\"" THEN SkipNonQuotes(s, i + 1) ELSE i

\* the match of status"\s*:\s*"([^"]+)" that starts at position i, if any
MatchStatusAt(s, i) ==
    LET key == <<"s","t","a","t","u","s","\"">>
        colon == SkipSpaces(s, i + Len(key))
        quote == SkipSpaces(s, colon + 1)
        close == SkipNonQuotes(s, quote + 1)
    IN  IF /\ i + Len(key) - 1 <= Len(s)
           /\ SubSeq(s, i, i + Len(key) - 1) = key
           /\ colon <= Len(s) /\ s[colon] = ":"
           /\ quote <= Len(s) /\ s[quote] = "\""
           /\ close > quote + 1
           /\ close <= Len(s)
        THEN [ok |-> TRUE, whole |-> SubSeq(s, i, close),
              group |-> SubSeq(s, quote + 1, close - 1)]
        ELSE [ok |-> FALSE, whole |-> <<>>, group |-> <<>>]

\* statusNotificationStatusRe.FindStringSubmatch(line): the leftmost match
\* and its capture group, or nothing
statusNotificationStatusRe(line) ==
    LET starts == {i \in 1..Len(line) : MatchStatusAt(line, i).ok} IN
    IF starts = {} THEN <<>>
    ELSE LET first == CHOOSE i \in starts : \A j \in starts : i <= j
             m == MatchStatusAt(line, first)
         IN  <<m.whole, m.group>>

normalizeSessionState(state) ==
    ReplaceAllChar(ReplaceAllChar(ToLower(TrimSpace(state)), " "), "_")

\* a classifier whose prefix rules accept the bare word only
ocppCodeFromSessionState_ExactOnly(state) ==
    LET normalized == normalizeSessionState(state) IN
    CASE normalized = <<"r","e","a","d","y">> -> [code |-> 1, ok |-> TRUE]
      [] normalized \in {<<"f","i","n","i","s","h">>, <<"l","o","c","k">>, <<"w","a","i","t","u","n","l","o","c","k">>} -> [code |-> 6, ok |-> TRUE]
      [] normalized = <<"r","e","s","e","r","v","e","d">> -> [code |-> 7, ok |-> TRUE]
      [] normalized \in {<<"u","p","d","a","t","i","n","g">>, <<"u","n","a","v","a","i","l","a","b","l","e">>, <<"p","s","u","n","c","o","n","f","i","g">>} -> [code |-> 8, ok |-> TRUE]
      [] normalized \in {<<"e","r","r","o","r">>, <<"u","n","v","i","a","b","l","e">>} -> [code |-> 9, ok |-> TRUE]
      [] normalized \in {<<"c","o","n","n","e","c","t","e","d">>, <<"p","a","u","s","e","d">>, <<"s","c","h","e","d","u","l","e","d">>} -> [code |-> 5, ok |-> TRUE]
      [] normalized \in {<<"w","a","i","t","i","n","g">>, <<"m","i","d">>, <<"q","u","e","u","e">>} -> [code |-> 2, ok |-> TRUE]
      [] normalized \in {<<"c","h","a","r","g","i","n","g">>, <<"d","i","s","c","h","a","r","g","i","n","g">>} -> [code |-> 3, ok |-> TRUE]
      [] OTHER -> [code |-> 0, ok |-> FALSE]

\* (code, ok) of ocppCodeFromSessionState
ocppCodeFromSessionState(state) ==
    LET normalized == normalizeSessionState(state) IN
    CASE normalized = <<"r","e","a","d","y">> -> [code |-> 1, ok |-> TRUE]
      [] normalized \in { <<"f","i","n","i","s","h">>,
                          <<"l","o","c","k">>,
                          <<"w","a","i","t","u","n","l","o","c","k">> }
            -> [code |-> 6, ok |-> TRUE]
      [] normalized = <<"r","e","s","e","r","v","e","d">> -> [code |-> 7, ok |-> TRUE]
      [] normalized \in { <<"u","p","d","a","t","i","n","g">>,
                          <<"u","n","a","v","a","i","l","a","b","l","e">>,
                          <<"p","s","u","n","c","o","n","f","i","g">> }
            -> [code |-> 8, ok |-> TRUE]
      [] normalized \in { <<"e","r","r","o","r">>,
                          <<"u","n","v","i","a","b","l","e">> }
            -> [code |-> 9, ok |-> TRUE]
      [] OTHER ->
         IF HasPrefix(normalized, <<"c","o","n","n","e","c","t","e","d">>)
         THEN [code |-> 5, ok |-> TRUE]
         ELSE IF \/ HasPrefix(normalized, <<"w","a","i","t","i","n","g">>)
                 \/ HasPrefix(normalized, <<"m","i","d">>)
                 \/ HasPrefix(normalized, <<"q","u","e","u","e">>)
         THEN [code |-> 2, ok |-> TRUE]
         ELSE IF \/ HasPrefix(normalized, <<"c","h","a","r","g","i","n","g">>)
                 \/ HasPrefix(normalized, <<"d","i","s","c","h","a","r","g","i","n","g">>)
         THEN [code |-> 3, ok |-> TRUE]
         ELSE IF \/ HasPrefix(normalized, <<"p","a","u","s","e","d">>)
                 \/ HasPrefix(normalized, <<"s","c","h","e","d","u","l","e","d">>)
         THEN [code |-> 5, ok |-> TRUE]
         ELSE [code |-> 0, ok |-> FALSE]

----------------------------------------------------------------------------
(* Status tables of package wallbox *)

\* keys are the status names "Available" .. "Faulted"
ocppStatusStringToCode ==
    <<"A","v","a","i","l","a","b","l","e">> :> 1
    @@ <<"P","r","e","p","a","r","i","n","g">> :> 2
    @@ <<"C","h","a","r","g","i","n","g">> :> 3
    @@ <<"S","u","s","p","e","n","d","e","d","E","V","S","E">> :> 4
    @@ <<"S","u","s","p","e","n","d","e","d","E","V">> :> 5
    @@ <<"F","i","n","i","s","h","i","n","g">> :> 6
    @@ <<"R","e","s","e","r","v","e","d">> :> 7
    @@ <<"U","n","a","v","a","i","l","a","b","l","e">> :> 8
    @@ <<"F","a","u","l","t","e","d">> :> 9

\* a lookup that answers 0 for a name the table does not have
LookupOCPPStatusCode_Default(status) ==
    IF status \in DOMAIN ocppStatusStringToCode
    THEN [code |-> ocppStatusStringToCode[status], found |-> TRUE]
    ELSE [code |-> 0, found |-> TRUE]

\* (code, found) of LookupOCPPStatusCode
LookupOCPPStatusCode(status) ==
    IF status \in DOMAIN ocppStatusStringToCode
    THEN [code |-> ocppStatusStringToCode[status], found |-> TRUE]
    ELSE [code |-> 0, found |-> FALSE]

ocppProblemStates == {1, 6, 8, 9}

\* the predicate over the table ocppStatusUnplugged of the earlier revision
ocppStatusIndicatesDisconnect_Unplugged(code) == code \in {1, 4, 5, 8, 9}

ocppStatusIndicatesDisconnect(code) == code \in ocppProblemStates

telemetryControlPilotConnected ==
    161 :> FALSE @@ 162 :> FALSE @@ 177 :> TRUE @@ 178 :> TRUE
    @@ 193 :> TRUE @@ 194 :> TRUE @@ 195 :> TRUE

telemetryStatusDescriptions ==
    0 :> "Disconnected" @@ 14 :> "Error" @@ 15 :> "Error"
    @@ 161 :> "Ready" @@ 162 :> "Ready" @@ 163 :> "Disconnected"
    @@ 164 :> "Waiting" @@ 165 :> "Locked" @@ 166 :> "Updating"
    @@ 177 :> "Scheduled" @@ 178 :> "Paused" @@ 179 :> "Scheduled"
    @@ 180 :> "Waiting" @@ 181 :> "Waiting" @@ 182 :> "Paused"
    @@ 183 :> "Waiting" @@ 184 :> "Waiting" @@ 185 :> "Waiting"
    @@ 186 :> "Waiting" @@ 187 :> "Waiting" @@ 188 :> "Waiting"
    @@ 189 :> "Waiting" @@ 193 :> "Charging" @@ 194 :> "Charging"
    @@ 195 :> "Charging" @@ 196 :> "Discharging" @@ 209 :> "Locked"
    @@ 210 :> "Locked"

describeTelemetryStatus(code) ==
    IF code \in DOMAIN telemetryStatusDescriptions
    THEN telemetryStatusDescriptions[code] ELSE "Unknown"

isTelemetryCableConnected(code) ==
    IF code \in DOMAIN telemetryControlPilotConnected
    THEN telemetryControlPilotConnected[code]
    ELSE describeTelemetryStatus(code) \notin {"Disconnected", "Ready", "Unknown"}

telemetryChargingStates == {193, 194, 195}

isTelemetryCharging(code) == code \in telemetryChargingStates

----------------------------------------------------------------------------
(* Methods of wallbox.Wallbox; `now` is the time of the call.  `legacy` is  *)
(* what RefreshData read from the redis "state" and "m2w" hashes (ControlPilot *)
(* and ChargerStatus): RefreshData overwrites it at the start of every tick  *)
(* and only the tick reads it, so it is an input of the tick.                *)

\* time.Since(ts) < 10*time.Minute; the zero time is ages ago
WithinStaleness(ts, now) == ~IsZero(ts) /\ now - ts < StaleAfter

\* getJournalOCPPStatus without the staleness test
getJournalOCPPStatus_NoStaleness(now) ==
    IF journalOCPPStatus >= 0
    THEN [code |-> journalOCPPStatus, ok |-> TRUE]
    ELSE [code |-> 0, ok |-> FALSE]

\* (code, ok) of getJournalOCPPStatus
getJournalOCPPStatus(now) ==
    IF journalOCPPStatus >= 0 /\ WithinStaleness(journalOCPPUpdated, now)
    THEN [code |-> journalOCPPStatus, ok |-> TRUE]
    ELSE [code |-> 0, ok |-> FALSE]

\* getTelemetryOCPPStatus without the staleness test
getTelemetryOCPPStatus_NoStaleness(now) ==
    IF telemetryOCPPStatus >= 0
    THEN [code |-> telemetryOCPPStatus, ok |-> TRUE]
    ELSE [code |-> 0, ok |-> FALSE]

\* (code, ok) of getTelemetryOCPPStatus
getTelemetryOCPPStatus(now) ==
    IF telemetryOCPPStatus >= 0 /\ WithinStaleness(telemetryOCPPUpdated, now)
    THEN [code |-> telemetryOCPPStatus, ok |-> TRUE]
    ELSE [code |-> 0, ok |-> FALSE]

\* OCPPStatusCode asking the session slot before the journal slot
OCPPStatusCode_SessionFirst(now) ==
    IF getTelemetryOCPPStatus(now).ok THEN getTelemetryOCPPStatus(now).code
    ELSE IF getJournalOCPPStatus(now).ok THEN getJournalOCPPStatus(now).code
    ELSE telOCPPStatus

OCPPStatusCode(now) ==
    IF getJournalOCPPStatus(now).ok THEN getJournalOCPPStatus(now).code
    ELSE IF getTelemetryOCPPStatus(now).ok THEN getTelemetryOCPPStatus(now).code
    ELSE telOCPPStatus

OCPPIndicatesDisconnect(now) == ocppStatusIndicatesDisconnect(OCPPStatusCode(now))

CableConnected(legacy) ==
    IF HasTelemetry
    THEN IF telControlPilotStatus # 0 /\ isTelemetryCableConnected(telControlPilotStatus)
         THEN 1 ELSE 0
    ELSE IF legacy.ChargerStatus = 0 \/ legacy.ChargerStatus = 6 THEN 0 ELSE 1

ControlPilotCode(legacy) ==
    IF HasTelemetry /\ telControlPilotStatus # 0
    THEN telControlPilotStatus
    ELSE legacy.ControlPilot

IsChargingPilot(legacy) == isTelemetryCharging(ControlPilotCode(legacy))

----------------------------------------------------------------------------
(* Configuration: [settings] of the ini file, then the defaults of RunBridge *)

\* the defaults RunBridge applies to c.Settings before anything else runs
ApplyDefaults(s) ==
    [s EXCEPT
       !.OCPPMismatchSeconds = IF @ = 0 THEN DefaultOCPPMismatchSeconds ELSE @,
       !.OCPPRestartCooldown = IF @ = 0 THEN DefaultOCPPRestartCooldown ELSE @,
       !.OCPPMaxRestarts     = IF @ <= 0 THEN DefaultOCPPMaxRestarts ELSE @,
       !.PilotErrorSeconds   = IF @ = 0 THEN DefaultPilotErrorSeconds ELSE @]

\* ini files explored by Spec: a coarse polling interval, so that the
\* staleness window, the threshold and the cooldown are a few ticks long
IniFiles ==
    { [PollingIntervalSeconds |-> 300, AutoRestartOCPP |-> TRUE,
       OCPPMismatchSeconds |-> 0, OCPPRestartCooldown |-> 0,
       OCPPMaxRestarts |-> 1, OCPPFullReboot |-> TRUE,
       PilotErrorReboot |-> TRUE, PilotErrorSeconds |-> 0],
      [PollingIntervalSeconds |-> 300, AutoRestartOCPP |-> TRUE,
       OCPPMismatchSeconds |-> 600, OCPPRestartCooldown |-> 300,
       OCPPMaxRestarts |-> 1, OCPPFullReboot |-> FALSE,
       PilotErrorReboot |-> FALSE, PilotErrorSeconds |-> 0] }

\* the ini file of the spec's scenario: every healing option left to its
\* default (threshold 60 s, cooldown 600 s, 3 restarts), escalation enabled
ScenarioIniFile ==
    [PollingIntervalSeconds |-> 20, AutoRestartOCPP |-> TRUE,
     OCPPMismatchSeconds |-> 0, OCPPRestartCooldown |-> 0,
     OCPPMaxRestarts |-> 0, OCPPFullReboot |-> TRUE,
     PilotErrorReboot |-> FALSE, PilotErrorSeconds |-> 0]

----------------------------------------------------------------------------
(* Inputs of the environment *)

\* lines of the ocppwallbox journal
JournalLines ==
    { \* a StatusNotification request, status Available
      <<"S","t","a","t","u","s","N","o","t","i","f","i","c","a","t","i","o","n","\"",",","{","\"","e","r","r","o","r","C","o","d","e","\"",":"," ","\"","N","o","E","r","r","o","r","\"",",","\"","s","t","a","t","u","s","\"",":"," ","\"","A","v","a","i","l","a","b","l","e","\"","}","]">>,
      \* status Charging, with blanks around the colon and inside the quotes
      <<"S","t","a","t","u","s","N","o","t","i","f","i","c","a","t","i","o","n","\"",",","{","\"","s","t","a","t","u","s","\""," ",":"," ","\""," ","C","h","a","r","g","i","n","g"," ","\"","}","]">>,
      \* a status that is not in the table
      <<"S","t","a","t","u","s","N","o","t","i","f","i","c","a","t","i","o","n","\"",",","{","\"","s","t","a","t","u","s","\"",":","\"","B","o","g","u","s","\"","}","]">>,
      \* the marker without a status field
      <<"s","o","m","e"," ","o","t","h","e","r"," ","l","o","g"," ","l","i","n","e"," ","w","i","t","h","o","u","t"," ","S","t","a","t","u","s","N","o","t","i","f","i","c","a","t","i","o","n">>,
      \* a status field without the marker
      <<"H","e","a","r","t","b","e","a","t","\"",",","{","\"","s","t","a","t","u","s","\"",":"," ","\"","A","v","a","i","l","a","b","l","e","\"","}","]">>,
      \* a blank status
      <<"S","t","a","t","u","s","N","o","t","i","f","i","c","a","t","i","o","n","\"",",","{","\"","s","t","a","t","u","s","\"",":","\""," ","\"","}","]">> }

\* journal lines for the parser: those above and two more statuses
ParserLines ==
    JournalLines \cup
    { \* status Faulted
      <<"S","t","a","t","u","s","N","o","t","i","f","i","c","a","t","i","o","n","\"",",","{","\"","s","t","a","t","u","s","\"",":","\"","F","a","u","l","t","e","d","\"","}","]">>,
      \* status SuspendedEV
      <<"S","t","a","t","u","s","N","o","t","i","f","i","c","a","t","i","o","n","\"",",","{","\"","s","t","a","t","u","s","\"",":","\"","S","u","s","p","e","n","d","e","d","E","V","\"","}","]">> }

\* session.state labels of EVENT_SESSION_UPDATE messages
SessionLabels ==
    { <<"C","o","n","n","e","c","t","e","d"," ","5">>,
      <<"F","i","n","i","s","h">>,
      <<"b","o","g","u","s","-","s","t","a","t","e">>,
      <<>> }

\* session.state labels for the classifier: one for every rule of
\* ocppCodeFromSessionState (the names the charger uses), spellings the
\* normalisation folds, and labels no rule accepts
ClassifierLabels ==
    { <<"R","e","a","d","y">>,
      <<"F","i","n","i","s","h">>,
      <<"L","o","c","k">>,
      <<"W","a","i","t"," ","U","n","l","o","c","k">>,
      <<"R","e","s","e","r","v","e","d">>,
      <<"U","p","d","a","t","i","n","g">>,
      <<"U","n","a","v","a","i","l","a","b","l","e">>,
      <<"P","S"," ","U","n","c","o","n","f","i","g">>,
      <<"E","r","r","o","r">>,
      <<"U","n","v","i","a","b","l","e">>,
      <<"C","o","n","n","e","c","t","e","d"," ","5">>,
      <<"W","a","i","t","i","n","g">>,
      <<"M","i","d">>,
      <<"Q","u","e","u","e"," ","2">>,
      <<"C","h","a","r","g","i","n","g">>,
      <<"D","i","s","c","h","a","r","g","i","n","g">>,
      <<"P","a","u","s","e","d">>,
      <<"S","c","h","e","d","u","l","e","d">>,
      <<" ","C","H","A","R","G","I","N","G","_","1"," ">>,
      <<"w","a","i","t","-","u","n","l","o","c","k">>,
      <<"u","n","c","o","n","f","i","g","u","r","e","d">>,
      <<"F","i","n","i","s","h","i","n","g">>,
      <<"R","e","a","d","y"," ","2">>,
      <<"b","o","g","u","s","-","s","t","a","t","e">>,
      <<>> }

MessageIDs == {"EVENT_SESSION_UPDATE", "EVENT_OTHER"}

\* telemetry sensors: two mapped fields and one without a struct field
SensorIDs == {"SENSOR_CONTROL_PILOT_STATUS", "SENSOR_OCPP_STATUS", "SENSOR_UNTRACKED"}

\* telemetry control pilot values: none, error, connected
TelemetryPilotValues == {0, 14, 178}

\* telemetry SENSOR_OCPP_STATUS values
TelemetryOCPPValues == {0, 8}

SensorValues(id) ==
    CASE id = "SENSOR_CONTROL_PILOT_STATUS" -> TelemetryPilotValues
      [] id = "SENSOR_OCPP_STATUS" -> TelemetryOCPPValues
      [] OTHER -> {0}

\* ctrlPilot of the redis "state" hash (error, charging) and
\* tms.charger_status of the "m2w" hash, as one RefreshData reads them
LegacyStates ==
    { [ControlPilot |-> 14, ChargerStatus |-> 0],
      [ControlPilot |-> 194, ChargerStatus |-> 1] }

\* exit status of each command one tick may run (TRUE = exit 0)
CmdOutcomes ==
    [redisActive : BOOLEAN, mysqlActive : BOOLEAN,
     stop : BOOLEAN, start : BOOLEAN, restart : BOOLEAN,
     script : BOOLEAN, reboot : BOOLEAN]

\* outcomes told apart only by the commands that run: a command that is not
\* run (start after a failed stop, restart after a graceful stop+start, the
\* reboot commands unless restart failed) counts as exiting 0
RunOutcomes ==
    { o \in CmdOutcomes :
        /\ (~o.stop => o.start)
        /\ ((o.stop /\ o.start) \/ o.restart => o.script /\ o.reboot)
        /\ (o.script => o.reboot) }

\* outcomes with which restartCriticalServices restarts the service
RestartingOutcomes == { o \in RunOutcomes : (o.stop /\ o.start) \/ o.restart }

AllSucceed ==
    [redisActive |-> TRUE, mysqlActive |-> TRUE, stop |-> TRUE, start |-> TRUE,
     restart |-> TRUE, script |-> TRUE, reboot |-> TRUE]

----------------------------------------------------------------------------
(* State after construction: wallbox.New() and the locals of RunBridge *)

NoTick ==
    [n |-> 0, pilotConnected |-> FALSE, ocppIndicatesDisconnect |-> FALSE,
     ocppCode |-> 0, pilotCode |-> 0,
     detector |-> [state |-> "0", start |-> Zero, count |-> 0],
     cmds |-> <<>>, attempts |-> 0, spawned |-> {}, published |-> FALSE]

\* the goroutines that share the wallbox: the journal watcher, the goroutine
\* of StartRedisSubscriptions and the polling loop
Goroutines == {"watcher", "subscription", "loop"}

\* ocppStatusMux free, every goroutine between two calls, both slots as
\* wallbox.New() left them
NoMux ==
    [writer |-> "none", readers |-> {},
     pc |-> [t \in Goroutines |-> "idle"],
     arg |-> [t \in {"watcher", "subscription"} |-> 0],
     seen |-> [has |-> FALSE, pilot |-> 0],
     got |-> [slot |-> "none", code |-> -1, ts |-> Zero, complete |-> FALSE],
     code |-> 0,
     written |-> [journal |-> {<<-1, Zero>>}, session |-> {<<-1, Zero>>}],
     calls |-> 0, reads |-> 0]

\* w.journalStopCh nil (0), no channel made, no watcher goroutine started;
\* `stop` is the position of the caller inside StopOCPPJournalWatcher
NoLifecycle ==
    [journalStopCh |-> 0, made |-> 0, closed |-> {},
     pc |-> [id \in 1..MaxWatcherStarts |-> "none"],
     process |-> [id \in 1..MaxWatcherStarts |-> FALSE],
     stop |-> "idle", panicked |-> FALSE]

\* the polling loop waiting for ticker.C
NoLoop ==
    [pc |-> "wait", now |-> Zero,
     legacy |-> [ControlPilot |-> 0, ChargerStatus |-> 0],
     pilotConnected |-> FALSE, ocppIndicatesDisconnect |-> FALSE, ocppCode |-> 0,
     detector |-> [state |-> "0", start |-> Zero, count |-> 0], episode |-> FALSE,
     cmds |-> <<>>, spawned |-> {}, order |-> <<>>]

InitWallbox ==
    /\ HasTelemetry = FALSE
    /\ telControlPilotStatus = 0
    /\ telOCPPStatus = 0
    /\ telemetryOCPPStatus = -1
    /\ telemetryOCPPUpdated = Zero
    /\ journalOCPPStatus = -1
    /\ journalOCPPUpdated = Zero

\* no line and no session event handled yet
NoEvent == [kind |-> "none", n |-> 0]

InitBridge ==
    /\ ocppMismatchState = "0"
    /\ ocppLastRestart = Never
    /\ ocppLastHealAction = "idle"
    /\ ocppLastHealError = ""
    /\ ocppLastHealAt = Never
    /\ ocppLastHealDetail = ""
    /\ mismatchStart = Zero
    /\ lastRestart = Zero
    /\ ocppRestartCount = 0
    /\ lastFullReboot = Zero
    /\ pilotErrorStart = Zero
    /\ lastPilotErrorReboot = Zero
    /\ tick = NoTick
    /\ pendingReboots = 0
    /\ event = NoEvent
    /\ mux = NoMux
    /\ loop = NoLoop
    /\ lifecycle = NoLifecycle

\* no line of the journal read
NoLine == [json |-> FALSE, text |-> <<"no line">>]

\* the watcher of package wallbox, its goroutine just spawned by
\* StartOCPPJournalWatcher (journalctl runs with -o cat)
Spawned ==
    [impl |-> "wallbox", pc |-> "start_cat", cancelled |-> FALSE,
     process |-> "none", mode |-> "none", failed |-> {}, err |-> "none",
     line |-> NoLine, lines |-> 0, wrote |-> FALSE]

\* the same watcher with journalctl started, waiting for a line
Watching ==
    [Spawned EXCEPT !.pc = "scan", !.process = "running", !.mode = "cat"]

\* RunBridge started with the ini file s
Started(s) ==
    /\ clock = StartTime
    /\ c = ApplyDefaults(s)
    /\ InitWallbox
    /\ InitBridge
    /\ watcher = Watching

Init == \E s \in IniFiles : Started(s)

----------------------------------------------------------------------------
(* Source tasks: they write the wallbox and stamp time.Now()                 *)

\* a parser that does not look for the marker
parseOCPPStatusFromLogLine_NoMarker(line) ==
    LET matches == statusNotificationStatusRe(line) IN
    IF Len(matches) < 2 THEN [status |-> <<>>, ok |-> FALSE]
    ELSE IF TrimSpace(matches[2]) = <<>> THEN [status |-> <<>>, ok |-> FALSE]
    ELSE [status |-> TrimSpace(matches[2]), ok |-> TRUE]

\* (status, ok) of parseOCPPStatusFromLogLine
parseOCPPStatusFromLogLine(line) ==
    LET matches == statusNotificationStatusRe(line) IN
    IF ~Contains(line, <<"S","t","a","t","u","s","N","o","t","i","f","i","c","a","t","i","o","n">>)
    THEN [status |-> <<>>, ok |-> FALSE]
    ELSE IF Len(matches) < 2 THEN [status |-> <<>>, ok |-> FALSE]
    ELSE IF TrimSpace(matches[2]) = <<>> THEN [status |-> <<>>, ok |-> FALSE]
    ELSE [status |-> TrimSpace(matches[2]), ok |-> TRUE]

SetJournalOCPPStatus(code) ==
    /\ journalOCPPStatus' = code
    /\ journalOCPPUpdated' = clock

SetTelemetryOCPPStatus(code) ==
    /\ telemetryOCPPStatus' = code
    /\ telemetryOCPPUpdated' = clock

\* one line read by the journal watcher goroutine
JournalLine(line) ==
    LET parsed == parseOCPPStatusFromLogLine(line)
        looked == LookupOCPPStatusCode(parsed.status)
    IN  /\ IF parsed.ok /\ looked.found
           THEN SetJournalOCPPStatus(looked.code)
           ELSE UNCHANGED <<journalOCPPStatus, journalOCPPUpdated>>
        /\ UNCHANGED <<HasTelemetry, telControlPilotStatus, telOCPPStatus,
                       telemetryOCPPStatus, telemetryOCPPUpdated>>
        /\ UNCHANGED <<clock, c, hvars, tick, pendingReboots>>

\* a handler that stores the classifier's code whether or not it is ok
ProcessSessionUpdateEvent_StoresDefault(messageID, state) ==
    LET mapped == ocppCodeFromSessionState(state)
    IN  /\ IF messageID = "EVENT_SESSION_UPDATE" /\ state # <<>>
           THEN SetTelemetryOCPPStatus(mapped.code)
           ELSE UNCHANGED <<telemetryOCPPStatus, telemetryOCPPUpdated>>
        /\ UNCHANGED <<HasTelemetry, telControlPilotStatus, telOCPPStatus,
                       journalOCPPStatus, journalOCPPUpdated>>
        /\ UNCHANGED <<clock, c, hvars, tick, pendingReboots>>

ProcessSessionUpdateEvent(messageID, state) ==
    LET mapped == ocppCodeFromSessionState(state)
    IN  /\ IF messageID = "EVENT_SESSION_UPDATE" /\ state # <<>> /\ mapped.ok
           THEN SetTelemetryOCPPStatus(mapped.code)
           ELSE UNCHANGED <<telemetryOCPPStatus, telemetryOCPPUpdated>>
        /\ UNCHANGED <<HasTelemetry, telControlPilotStatus, telOCPPStatus,
                       journalOCPPStatus, journalOCPPUpdated>>
        /\ UNCHANGED <<clock, c, hvars, tick, pendingReboots>>

\* one sensor of a telemetry event
updateTelemetryField(sensorID, value) ==
    /\ CASE sensorID = "SENSOR_CONTROL_PILOT_STATUS" ->
               /\ HasTelemetry' = TRUE
               /\ telControlPilotStatus' = value
               /\ UNCHANGED telOCPPStatus
         [] sensorID = "SENSOR_OCPP_STATUS" ->
               /\ HasTelemetry' = TRUE
               /\ telOCPPStatus' = value
               /\ UNCHANGED telControlPilotStatus
         [] OTHER ->
               UNCHANGED <<HasTelemetry, telControlPilotStatus, telOCPPStatus>>
    /\ UNCHANGED <<telemetryOCPPStatus, telemetryOCPPUpdated,
                   journalOCPPStatus, journalOCPPUpdated>>
    /\ UNCHANGED <<clock, c, hvars, tick, pendingReboots>>

----------------------------------------------------------------------------
(* External commands; `out` gives the exit status of each                    *)

\* rebootSystem: the vendor script, then `systemctl reboot` if it failed
rebootSystem(out) ==
    IF out.script
    THEN [err |-> FALSE, cmds |-> <<"reboot.sh">>]
    ELSE [err |-> ~out.reboot, cmds |-> <<"reboot.sh", "systemctl reboot">>]

\* restartCriticalServices going from a failed stop or start to the reboot
restartCriticalServices_NoDirectRestart(out) ==
    LET checks == <<"is-active redis", "is-active mysqld">>
        graceful == IF out.stop THEN <<"systemctl stop", "systemctl start">>
                                ELSE <<"systemctl stop">>
    IN  IF out.stop /\ out.start
        THEN [action |-> "stop_start", detail |-> "stopped+started", err |-> FALSE,
              cmds |-> checks \o graceful]
        ELSE LET rb == rebootSystem(out) IN
             IF rb.err
             THEN [action |-> "reboot", detail |-> "reboot failed after restart error",
                   err |-> TRUE, cmds |-> checks \o graceful \o rb.cmds]
             ELSE [action |-> "reboot", detail |-> "reboot issued after restart failure",
                   err |-> FALSE, cmds |-> checks \o graceful \o rb.cmds]

\* (action, detail, err) of restartCriticalServices, and the commands it ran
restartCriticalServices(out) ==
    LET checks == <<"is-active redis", "is-active mysqld">>
        graceful == IF out.stop THEN <<"systemctl stop", "systemctl start">>
                                ELSE <<"systemctl stop">>
    IN  IF out.stop /\ out.start
        THEN [action |-> "stop_start", detail |-> "stopped+started", err |-> FALSE,
              cmds |-> checks \o graceful]
        ELSE IF out.restart
        THEN [action |-> "restart", detail |-> "restarted", err |-> FALSE,
              cmds |-> checks \o graceful \o <<"systemctl restart">>]
        ELSE LET rb == rebootSystem(out) IN
             IF rb.err
             THEN [action |-> "reboot", detail |-> "reboot failed after restart error",
                   err |-> TRUE,
                   cmds |-> checks \o graceful \o <<"systemctl restart">> \o rb.cmds]
             ELSE [action |-> "reboot", detail |-> "reboot issued after restart failure",
                   err |-> FALSE,
                   cmds |-> checks \o graceful \o <<"systemctl restart">> \o rb.cmds]

----------------------------------------------------------------------------
(* One tick of the polling loop, step by step                               *)

\* pilotConnected from the legacy fields too
PilotConnected_Legacy(legacy) ==
    CableConnected(legacy) = 1 \/ IsChargingPilot(legacy)

\* pilotConnected of the tick
PilotConnected(legacy) ==
    HasTelemetry /\ (CableConnected(legacy) = 1 \/ IsChargingPilot(legacy))

\* the detector looking at the OCPP status only
MismatchDetector_IgnoresPilot(pilotConnected, indicatesDisconnect, now) ==
    IF indicatesDisconnect
    THEN [state |-> "1",
          start |-> IF IsZero(mismatchStart) THEN now ELSE mismatchStart,
          count |-> IF IsZero(mismatchStart) THEN 0 ELSE ocppRestartCount]
    ELSE [state |-> "0", start |-> Zero, count |-> 0]

\* the detector keeping mismatchStart when the mismatch clears
MismatchDetector_KeepsStart(pilotConnected, indicatesDisconnect, now) ==
    IF pilotConnected /\ indicatesDisconnect
    THEN [state |-> "1",
          start |-> IF IsZero(mismatchStart) THEN now ELSE mismatchStart,
          count |-> IF IsZero(mismatchStart) THEN 0 ELSE ocppRestartCount]
    ELSE [state |-> "0", start |-> mismatchStart, count |-> 0]

\* the detector stamping mismatchStart on every tick of a mismatch
MismatchDetector_Restamps(pilotConnected, indicatesDisconnect, now) ==
    IF pilotConnected /\ indicatesDisconnect
    THEN [state |-> "1", start |-> now,
          count |-> IF IsZero(mismatchStart) THEN 0 ELSE ocppRestartCount]
    ELSE [state |-> "0", start |-> Zero, count |-> 0]

\* the mismatch detector: ocppMismatchState, mismatchStart, ocppRestartCount
MismatchDetector(pilotConnected, indicatesDisconnect, now) ==
    IF pilotConnected /\ indicatesDisconnect
    THEN [state |-> "1",
          start |-> IF IsZero(mismatchStart) THEN now ELSE mismatchStart,
          count |-> IF IsZero(mismatchStart) THEN 0 ELSE ocppRestartCount]
    ELSE [state |-> "0", start |-> Zero, count |-> 0]

\* HealDue without the mismatch threshold
HealDue_NoThreshold(d, now) ==
    /\ c.AutoRestartOCPP
    /\ d.state = "1"
    /\ ~IsZero(d.start)
    /\ (IsZero(lastRestart) \/ now - lastRestart >= c.OCPPRestartCooldown)

\* HealDue without the restart cooldown
HealDue_NoCooldown(d, now) ==
    /\ c.AutoRestartOCPP
    /\ d.state = "1"
    /\ ~IsZero(d.start)
    /\ now - d.start >= c.OCPPMismatchSeconds

\* HealDue without the auto-heal option
HealDue_AutoHealIgnored(d, now) ==
    /\ d.state = "1"
    /\ ~IsZero(d.start)
    /\ now - d.start >= c.OCPPMismatchSeconds
    /\ (IsZero(lastRestart) \/ now - lastRestart >= c.OCPPRestartCooldown)

\* HealDue with a cooldown that ends with the mismatch episode
HealDue_CooldownPerEpisode(d, now) ==
    /\ c.AutoRestartOCPP
    /\ d.state = "1"
    /\ ~IsZero(d.start)
    /\ now - d.start >= c.OCPPMismatchSeconds
    /\ (IsZero(lastRestart) \/ d.count = 0 \/ now - lastRestart >= c.OCPPRestartCooldown)

\* the healing controller acts: auto-heal on, mismatch active, threshold and
\* cooldown elapsed (d is the detector's result)
HealDue(d, now) ==
    /\ c.AutoRestartOCPP
    /\ d.state = "1"
    /\ ~IsZero(d.start)
    /\ now - d.start >= c.OCPPMismatchSeconds
    /\ (IsZero(lastRestart) \/ now - lastRestart >= c.OCPPRestartCooldown)

\* RestartAllowed without the restart limit
RestartAllowed_NoLimit(d) == TRUE

\* the restart branch is taken, not the escalation branch
RestartAllowed(d) ==
    c.OCPPMaxRestarts = 0 \/ d.count < c.OCPPMaxRestarts

\* EscalationDue without the cooldown since the last full reboot
EscalationDue_NoCooldown(now) == c.OCPPFullReboot

\* the escalation branch issues its reboot
EscalationDue(now) ==
    /\ c.OCPPFullReboot
    /\ (IsZero(lastFullReboot) \/ now - lastFullReboot >= c.OCPPRestartCooldown)

\* AfterRestart leaving mismatchStart alone after a successful restart
AfterRestart_NoRestamp(d, r, now) ==
    IF r.err
    THEN [start |-> d.start, count |-> d.count,
          lastRestart |-> lastRestart, lastRestartText |-> ocppLastRestart,
          action |-> r.action, detail |-> r.detail, at |-> FormatRFC3339(now),
          error |-> r.detail, skipRest |-> TRUE]
    ELSE [start |-> d.start, count |-> d.count + 1,
          lastRestart |-> now, lastRestartText |-> FormatRFC3339(now),
          action |-> r.action, detail |-> r.detail, at |-> FormatRFC3339(now),
          error |-> IF r.action = "reboot" THEN r.detail ELSE "",
          skipRest |-> FALSE]

\* the bookkeeping after restartCriticalServices returned r
AfterRestart(d, r, now) ==
    IF r.err
    THEN [start |-> d.start, count |-> d.count,
          lastRestart |-> lastRestart, lastRestartText |-> ocppLastRestart,
          action |-> r.action, detail |-> r.detail, at |-> FormatRFC3339(now),
          error |-> r.detail, skipRest |-> TRUE]
    ELSE [start |-> now, count |-> d.count + 1,
          lastRestart |-> now, lastRestartText |-> FormatRFC3339(now),
          action |-> r.action, detail |-> r.detail, at |-> FormatRFC3339(now),
          error |-> IF r.action = "reboot" THEN r.detail ELSE "",
          skipRest |-> FALSE]

\* the healing controller; skipRest is the `continue` of the failure path
HealingController(d, out, now) ==
    LET idle == [start |-> d.start, count |-> d.count,
                 lastRestart |-> lastRestart, lastRestartText |-> ocppLastRestart,
                 lastFullReboot |-> lastFullReboot,
                 action |-> ocppLastHealAction, detail |-> ocppLastHealDetail,
                 at |-> ocppLastHealAt, error |-> ocppLastHealError,
                 cmds |-> <<>>, spawned |-> {}, skipRest |-> FALSE]
    IN  IF ~HealDue(d, now) THEN idle
        ELSE IF RestartAllowed(d)
        THEN LET r == restartCriticalServices(out)
                 b == AfterRestart(d, r, now)
             IN  [idle EXCEPT !.start = b.start, !.count = b.count,
                              !.lastRestart = b.lastRestart,
                              !.lastRestartText = b.lastRestartText,
                              !.action = b.action, !.detail = b.detail,
                              !.at = b.at, !.error = b.error,
                              !.cmds = r.cmds, !.skipRest = b.skipRest]
        ELSE IF EscalationDue(now)
        THEN [idle EXCEPT !.lastFullReboot = now, !.spawned = {"ocpp_heal"}]
        ELSE idle

\* the pilot-error safety net: pilotErrorStart, lastPilotErrorReboot
PilotErrorNet(code, now) ==
    LET keep == [start |-> pilotErrorStart, lastReboot |-> lastPilotErrorReboot,
                 spawned |-> {}]
    IN  IF ~c.PilotErrorReboot THEN keep
        ELSE IF code # PilotErrorCode THEN [keep EXCEPT !.start = Zero]
        ELSE LET start == IF IsZero(pilotErrorStart) THEN now ELSE pilotErrorStart
             IN  IF /\ now - start >= c.PilotErrorSeconds
                    /\ \/ IsZero(lastPilotErrorReboot)
                       \/ now - lastPilotErrorReboot >= c.PilotErrorSeconds
                 THEN [start |-> Zero, lastReboot |-> now, spawned |-> {"pilot_error"}]
                 ELSE [keep EXCEPT !.start = start]

\* ticker.C fired: RefreshData read `legacy`; the commands exit as `out`
TickBody(legacy, out) ==
    LET now == clock + c.PollingIntervalSeconds
        pilotConnected == PilotConnected(legacy)
        ocppCode == OCPPStatusCode(now)
        indicatesDisconnect == OCPPIndicatesDisconnect(now)
        d == MismatchDetector(pilotConnected, indicatesDisconnect, now)
        h == HealingController(d, out, now)
        p == IF h.skipRest
             THEN [start |-> pilotErrorStart, lastReboot |-> lastPilotErrorReboot,
                   spawned |-> {}]
             ELSE PilotErrorNet(ControlPilotCode(legacy), now)
    IN  /\ clock' = now
        /\ ocppMismatchState' = d.state
        /\ mismatchStart' = h.start
        /\ ocppRestartCount' = h.count
        /\ lastRestart' = h.lastRestart
        /\ ocppLastRestart' = h.lastRestartText
        /\ lastFullReboot' = h.lastFullReboot
        /\ ocppLastHealAction' = h.action
        /\ ocppLastHealDetail' = h.detail
        /\ ocppLastHealAt' = h.at
        /\ ocppLastHealError' = h.error
        /\ pilotErrorStart' = p.start
        /\ lastPilotErrorReboot' = p.lastReboot
        /\ pendingReboots' = pendingReboots + Cardinality(h.spawned \cup p.spawned)
        /\ tick' = [n |-> tick.n + 1,
                    pilotConnected |-> pilotConnected,
                    ocppIndicatesDisconnect |-> indicatesDisconnect,
                    ocppCode |-> ocppCode,
                    pilotCode |-> ControlPilotCode(legacy),
                    detector |-> d,
                    cmds |-> h.cmds,
                    attempts |-> (IF d.state = "1" /\ ~IsZero(mismatchStart)
                                  THEN tick.attempts ELSE 0)
                                 + (IF h.cmds # <<>> THEN 1 ELSE 0),
                    spawned |-> h.spawned \cup p.spawned,
                    published |-> ~h.skipRest]
        /\ UNCHANGED <<c, HasTelemetry, telControlPilotStatus, telOCPPStatus,
                       telemetryOCPPStatus, telemetryOCPPUpdated,
                       journalOCPPStatus, journalOCPPUpdated>>

\* whether this tick runs restartCriticalServices
RestartsNow(legacy) ==
    LET now == clock + c.PollingIntervalSeconds
        d == MismatchDetector(PilotConnected(legacy),
                              OCPPIndicatesDisconnect(now), now)
    IN  HealDue(d, now) /\ RestartAllowed(d)

\* a polling loop that waits for the reboot goroutines before its next tick
TickOf_WaitsForReboot(limit, outs) ==
    /\ tick.n < limit
    /\ pendingReboots = 0
    /\ \E legacy \in LegacyStates :
          IF RestartsNow(legacy)
          THEN \E out \in outs : TickBody(legacy, out)
          ELSE TickBody(legacy, AllSucceed)
    /\ UNCHANGED <<event, watcher, cvars>>

\* one tick, of at most `limit` ticks, its commands exiting as one of `outs`
TickOf(limit, outs) ==
    /\ tick.n < limit
    /\ \E legacy \in LegacyStates :
          IF RestartsNow(legacy)
          THEN \E out \in outs : TickBody(legacy, out)
          ELSE TickBody(legacy, AllSucceed)
    /\ UNCHANGED <<event, watcher, cvars>>

Tick == TickOf(MaxTicks, RunOutcomes)

\* a reboot goroutine of an earlier tick runs rebootSystem
RebootTask ==
    /\ pendingReboots > 0
    /\ \E script \in BOOLEAN, reboot \in BOOLEAN :
          LET r == rebootSystem([AllSucceed EXCEPT !.script = script, !.reboot = reboot])
          IN  /\ r.err \in BOOLEAN          \* a failure is only logged
              /\ pendingReboots' = pendingReboots - 1
    /\ UNCHANGED <<clock, c, wvars, hvars, tick, event, watcher, cvars>>

TelemetryEvent ==
    /\ \E id \in SensorIDs : \E v \in SensorValues(id) : updateTelemetryField(id, v)
    /\ UNCHANGED <<event, watcher, cvars>>

JournalEvent ==
    /\ \E line \in JournalLines : JournalLine(line)
    /\ UNCHANGED <<event, watcher, cvars>>

SessionEvent ==
    /\ \E m \in MessageIDs, state \in SessionLabels : ProcessSessionUpdateEvent(m, state)
    /\ UNCHANGED <<event, watcher, cvars>>

\* the polling loop with the telemetry subscription as the only status source
Next ==
    \/ Tick
    \/ TelemetryEvent
    \/ RebootTask

Spec == Init /\ [][Next]_vars

----------------------------------------------------------------------------
(* The three status sources and the resolver: auto-heal and the safety net   *)
(* are switched off, the detector still runs on every tick                   *)

SourcesIniFile ==
    [PollingIntervalSeconds |-> 300, AutoRestartOCPP |-> FALSE,
     OCPPMismatchSeconds |-> 0, OCPPRestartCooldown |-> 0,
     OCPPMaxRestarts |-> 0, OCPPFullReboot |-> FALSE,
     PilotErrorReboot |-> FALSE, PilotErrorSeconds |-> 0]

InitSources == Started(SourcesIniFile)

TickSources == TickOf(MaxSourceTicks, RunOutcomes)

NextSources ==
    \/ TickSources
    \/ JournalEvent
    \/ SessionEvent
    \/ TelemetryEvent

SpecSources == InitSources /\ [][NextSources]_vars

----------------------------------------------------------------------------
(* The journal watcher and the session subscription, line by line and event  *)
(* by event: `event` records the input handled last, with what the parser,   *)
(* the table and the classifier returned for it                              *)

InitEvents == Started(SourcesIniFile)

\* messages on the session channel: a session update for every label, and
\* one message of another kind
SessionMessages ==
    [messageID : {"EVENT_SESSION_UPDATE"}, state : ClassifierLabels]
    \cup [messageID : {"EVENT_OTHER"}, state : {<<"F","i","n","i","s","h">>}]

TickEvents == TickOf(MaxEventTicks, RunOutcomes)

\* the journal watcher reads one line
JournalLineRead ==
    \E line \in ParserLines :
        /\ event.n < MaxEvents
        /\ JournalLine(line)
        /\ event' = [kind |-> "journal", n |-> event.n + 1, line |-> line,
                     parsed |-> parseOCPPStatusFromLogLine(line),
                     looked |-> LookupOCPPStatusCode(parseOCPPStatusFromLogLine(line).status)]
        /\ UNCHANGED <<watcher, cvars>>

\* the session subscription delivers one message
SessionMessage ==
    \E msg \in SessionMessages :
        /\ event.n < MaxEvents
        /\ ProcessSessionUpdateEvent(msg.messageID, msg.state)
        /\ event' = [kind |-> "session", n |-> event.n + 1,
                     messageID |-> msg.messageID, state |-> msg.state,
                     mapped |-> ocppCodeFromSessionState(msg.state)]
        /\ UNCHANGED <<watcher, cvars>>

NextEvents ==
    \/ TickEvents
    \/ JournalLineRead
    \/ SessionMessage

SpecEvents == InitEvents /\ [][NextEvents]_vars

----------------------------------------------------------------------------
(* The journal watcher as a task: StartOCPPJournalWatcher and                *)
(* StopOCPPJournalWatcher of package wallbox, and startOCPPJournalWatcher    *)
(* with watchOCPPJournal of package bridge.  journalctl prints lines when    *)
(* it likes; the process ends or the read fails when the system decides      *)

\* the watcher of package bridge, its goroutine just spawned by
\* startOCPPJournalWatcher
SpawnedBridge == [Spawned EXCEPT !.impl = "bridge", !.pc = "start_json"]

InitWatcher ==
    /\ clock = StartTime
    /\ c = ApplyDefaults(SourcesIniFile)
    /\ InitWallbox
    /\ InitBridge
    /\ watcher \in {Spawned, SpawnedBridge}

\* what journalctl prints for a message: the message in cat mode, an object
\* with the field MESSAGE in json mode
WatcherLines(mode) ==
    [json : {mode = "json"}, text : JournalLines \cup {<<>>}]

\* the bytes of a line
RawLine(line) ==
    IF line.json
    THEN <<"{","\"","M","E","S","S","A","G","E","\"",":","\"">> \o line.text \o <<"\"","}">>
    ELSE line.text

\* parseJournalMessage: the MESSAGE field of a json line if it is not
\* empty, otherwise the line as it is
parseJournalMessage(line) ==
    IF line.json /\ line.text # <<>> THEN line.text ELSE RawLine(line)

\* extractStatusFromJournal: the captured token, "" for none
extractStatusFromJournal(line) ==
    LET message == parseJournalMessage(line)
        matches == statusNotificationStatusRe(message)
    IN  IF message = <<>> THEN <<>>
        ELSE IF ~Contains(message, <<"S","t","a","t","u","s","N","o","t","i","f","i","c","a","t","i","o","n">>) THEN <<>>
        ELSE IF Len(matches) < 2 THEN <<>>
        ELSE matches[2]

\* w.SetOCPPStatusOverride(code): hands the journal's code to the resolver
SetOCPPStatusOverride(code) == SetJournalOCPPStatus(code)

\* startJournalCommand(ctx, mode): whether journalctl runs afterwards; a
\* command bound to a cancelled context does not start
startJournalCommand(w, ok) == ok /\ ~w.cancelled

\* a watcher that gives up when journalctl does not start in json mode
watchOCPPJournalStart_NoFallback(w, ok) ==
    IF startJournalCommand(w, ok)
    THEN [w EXCEPT !.pc = "scan", !.process = "running", !.mode = "json"]
    ELSE [w EXCEPT !.pc = "exited", !.err = "start", !.failed = @ \cup {"json"}]

\* the head of watchOCPPJournal: json mode, then cat mode, then the error
watchOCPPJournalStart(w, ok) ==
    IF w.pc = "start_json"
    THEN IF startJournalCommand(w, ok)
         THEN [w EXCEPT !.pc = "scan", !.process = "running", !.mode = "json"]
         ELSE [w EXCEPT !.pc = "start_cat", !.failed = @ \cup {"json"}]
    ELSE IF startJournalCommand(w, ok)
         THEN [w EXCEPT !.pc = "scan", !.process = "running", !.mode = "cat"]
         ELSE [w EXCEPT !.pc = "exited", !.err = "start", !.failed = @ \cup {"cat"}]

\* the head of the goroutine of StartOCPPJournalWatcher
StartOCPPJournalWatcher(w, ok) ==
    IF ok
    THEN [w EXCEPT !.pc = "select", !.process = "running", !.mode = "cat"]
    ELSE [w EXCEPT !.pc = "exited", !.err = "start", !.failed = @ \cup {"cat"}]

\* the watcher goroutine starts journalctl
WatcherStart ==
    /\ watcher.pc \in {"start_json", "start_cat"}
    /\ \E ok \in BOOLEAN :
          watcher' = IF watcher.impl = "bridge"
                     THEN watchOCPPJournalStart(watcher, ok)
                     ELSE StartOCPPJournalWatcher(watcher, ok)
    /\ UNCHANGED <<clock, c, wvars, hvars, tick, pendingReboots, event, cvars>>

\* journalctl prints a line and Scan returns it; package wallbox handles the
\* line at once, package bridge looks at its context first
WatcherScan ==
    /\ watcher.pc = "scan"
    /\ watcher.process = "running"
    /\ watcher.lines < MaxWatcherLines
    /\ \E line \in WatcherLines(watcher.mode) :
          IF watcher.impl = "bridge"
          THEN /\ watcher' = [watcher EXCEPT !.pc = "select", !.line = line,
                                             !.lines = @ + 1]
               /\ UNCHANGED <<clock, c, wvars, hvars, tick, pendingReboots, event, cvars>>
          ELSE /\ JournalLine(line.text)
               /\ watcher' = [watcher EXCEPT
                                !.pc = "select", !.lines = @ + 1,
                                !.wrote = @ \/ journalOCPPUpdated' # journalOCPPUpdated
                                            \/ journalOCPPStatus' # journalOCPPStatus]
               /\ UNCHANGED <<event, cvars>>

\* the select on stopCh (wallbox) or ctx.Done() (bridge)
WatcherSelect ==
    /\ watcher.pc = "select"
    /\ IF watcher.cancelled
       THEN \* wallbox: return, the deferred Kill and Wait run;
            \* bridge: cmd.Process.Kill(), return ctx.Err()
            /\ watcher' = [watcher EXCEPT
                             !.pc = "exited", !.process = "ended", !.line = NoLine,
                             !.err = IF watcher.impl = "bridge" THEN "ctx" ELSE @]
            /\ UNCHANGED <<clock, c, wvars, hvars, tick, pendingReboots, event, cvars>>
       ELSE IF watcher.impl = "wallbox"
       THEN /\ watcher' = [watcher EXCEPT !.pc = "scan"]
            /\ UNCHANGED <<clock, c, wvars, hvars, tick, pendingReboots, event, cvars>>
       ELSE LET status == extractStatusFromJournal(watcher.line)
                looked == LookupOCPPStatusCode(status)
                stored == status # <<>> /\ looked.found
            IN  /\ IF stored
                   THEN SetOCPPStatusOverride(looked.code)
                   ELSE UNCHANGED <<journalOCPPStatus, journalOCPPUpdated>>
                /\ watcher' = [watcher EXCEPT !.pc = "scan", !.line = NoLine,
                                              !.wrote = @ \/ stored]
                /\ UNCHANGED <<HasTelemetry, telControlPilotStatus, telOCPPStatus,
                               telemetryOCPPStatus, telemetryOCPPUpdated>>
                /\ UNCHANGED <<clock, c, hvars, tick, pendingReboots, event, cvars>>

\* Scan returns false: the stream is at its end, or the read failed.
\* wallbox: return, the deferred Kill and Wait run; bridge: return
\* scanner.Err() or, at the end of the stream, cmd.Wait()
ScanEnds(cause) ==
    /\ watcher.pc = "scan"
    /\ watcher.process # "none"
    /\ cause = "read" => watcher.process = "running"
    /\ watcher' = [watcher EXCEPT
                     !.pc = "exited",
                     !.err = IF cause = "read" THEN "read"
                             ELSE IF watcher.impl = "bridge" THEN "wait" ELSE @,
                     !.process = IF cause = "eof" \/ watcher.impl = "wallbox"
                                 THEN "ended" ELSE @]
    /\ UNCHANGED <<clock, c, wvars, hvars, tick, pendingReboots, event, cvars>>

\* the stream of a process that has ended is at its end
StreamClosed == watcher.process = "ended" /\ ScanEnds("eof")

\* journalctl ends by itself, or reading its output fails
StreamBreaks == watcher.process = "running" /\ \E cause \in {"eof", "read"} : ScanEnds(cause)

\* exec.CommandContext kills the process of a cancelled context
ContextKill ==
    /\ watcher.impl = "bridge"
    /\ watcher.cancelled
    /\ watcher.process = "running"
    /\ watcher' = [watcher EXCEPT !.process = "ended"]
    /\ UNCHANGED <<clock, c, wvars, hvars, tick, pendingReboots, event, cvars>>

\* the owner cancels: StopOCPPJournalWatcher closes the stop channel while
\* w.journalStopCh is set; the cancel function of startOCPPJournalWatcher
\* cancels the context
StopOCPPJournalWatcher ==
    /\ ~watcher.cancelled
    /\ watcher.impl = "wallbox" => watcher.pc # "exited"
    /\ watcher' = [watcher EXCEPT !.cancelled = TRUE]
    /\ UNCHANGED <<clock, c, wvars, hvars, tick, pendingReboots, event, cvars>>

NextWatcher ==
    \/ WatcherStart
    \/ WatcherScan
    \/ WatcherSelect
    \/ StreamClosed
    \/ StreamBreaks
    \/ ContextKill
    \/ StopOCPPJournalWatcher

\* the select of a cancelled watcher
WatcherStops == watcher.cancelled /\ WatcherSelect

\* the goroutines are scheduled and a closed stream is seen; nothing makes
\* journalctl print a line, end or fail
WatcherFairness ==
    /\ WF_vars(WatcherStart)
    /\ WF_vars(WatcherStops)
    /\ WF_vars(StreamClosed)
    /\ WF_vars(ContextKill)

SpecWatcher == InitWatcher /\ [][NextWatcher]_vars /\ WatcherFairness

\* the healing controller with the journal watcher and the telemetry
\* subscription as status sources
TickLegacy == TickOf(MaxLegacyTicks, RunOutcomes)

\* the journal lines that carry a status of the table (Available, Charging)
StatusLines ==
    { line \in JournalLines :
        /\ parseOCPPStatusFromLogLine(line).ok
        /\ LookupOCPPStatusCode(parseOCPPStatusFromLogLine(line).status).found }

StatusNotification ==
    /\ \E line \in StatusLines : JournalLine(line)
    /\ UNCHANGED <<event, watcher, cvars>>

NextLegacy ==
    \/ TickLegacy
    \/ StatusNotification
    \/ TelemetryEvent
    \/ RebootTask

SpecLegacy == Init /\ [][NextLegacy]_vars

\* the watcher task next to the polling loop and the session subscription
TickExit == TickOf(MaxExitTicks, RunOutcomes)

NextExit ==
    \/ NextWatcher
    \/ TickExit
    \/ SessionEvent

SpecExit == InitWatcher /\ [][NextExit]_vars

----------------------------------------------------------------------------
(* The scenario of the spec: defaults, a mismatch that never clears, every   *)
(* restart succeeding                                                        *)

\* telemetry reports a connected pilot and OCPP status Unavailable before the
\* first tick; no journal line and no session event is ever seen
InitScenario ==
    /\ clock = StartTime
    /\ c = ApplyDefaults(ScenarioIniFile)
    /\ HasTelemetry = TRUE
    /\ telControlPilotStatus = 178
    /\ telOCPPStatus = 8
    /\ telemetryOCPPStatus = -1
    /\ telemetryOCPPUpdated = Zero
    /\ journalOCPPStatus = -1
    /\ journalOCPPUpdated = Zero
    /\ InitBridge
    /\ watcher = Watching

TickScenario == TickOf(MaxScenarioTicks, RestartingOutcomes)

NextScenario ==
    \/ TickScenario
    \/ RebootTask

SpecScenario == InitScenario /\ [][NextScenario]_vars

----------------------------------------------------------------------------
(* Claims about the status resolver (SpecSources)                            *)

\* age of an observation stamped `updated`, read now
Age(updated) == clock - updated

\* the journal slot holds a code >= 0 updated less than 10 minutes ago
JournalSlotFresh ==
    journalOCPPStatus >= 0 /\ journalOCPPUpdated # Zero /\ Age(journalOCPPUpdated) < 600

\* the session-event slot holds a code >= 0 updated less than 10 minutes ago
SessionSlotFresh ==
    telemetryOCPPStatus >= 0 /\ telemetryOCPPUpdated # Zero
    /\ Age(telemetryOCPPUpdated) < 600

\* C1: at every read time, after every sequence of source updates,
\* OCPPStatusCode returns the journal code when the journal slot is fresh,
\* otherwise the session code when the session slot is fresh; it never
\* returns the session code or the raw telemetry value while the journal slot
\* is fresh, and never a journal or session code that is 10 minutes old or
\* older.  (The three sources deliver disjoint codes here, so the value
\* returned tells its source.)
C1_ResolverPriority ==
    LET code == OCPPStatusCode(clock) IN
    /\ JournalSlotFresh => code = journalOCPPStatus
    /\ (~JournalSlotFresh /\ SessionSlotFresh) => code = telemetryOCPPStatus
    /\ code = telemetryOCPPStatus => (~JournalSlotFresh /\ SessionSlotFresh)
    /\ code = journalOCPPStatus => JournalSlotFresh
    /\ code = telOCPPStatus => (~JournalSlotFresh /\ ~SessionSlotFresh)

\* C1 witness: a tick read the session code while the journal slot held a
\* code that had gone stale
C1_Witness ==
    /\ tick.n > 0
    /\ journalOCPPStatus >= 0
    /\ Age(journalOCPPUpdated) >= 600
    /\ SessionSlotFresh
    /\ Age(telemetryOCPPUpdated) > 0
    /\ tick.ocppCode = telemetryOCPPStatus
    /\ OCPPStatusCode(clock) = telemetryOCPPStatus

\* C2: when neither the journal slot nor the session slot is fresh (before
\* any observation included), OCPPStatusCode returns the raw telemetry OCPP
\* status, whatever its value; it never returns the sentinel -1
C2_ResolverFallback ==
    /\ (~JournalSlotFresh /\ ~SessionSlotFresh) => OCPPStatusCode(clock) = telOCPPStatus
    /\ OCPPStatusCode(clock) # -1
    /\ tick.ocppCode # -1

\* C2 witness: both slots hold a code, both are stale, and the tick read the
\* raw telemetry value
C2_Witness ==
    /\ tick.n > 0
    /\ journalOCPPStatus >= 0 /\ Age(journalOCPPUpdated) >= 600
    /\ telemetryOCPPStatus >= 0 /\ Age(telemetryOCPPUpdated) >= 600
    /\ telOCPPStatus = 8
    /\ tick.ocppCode = 8
    /\ OCPPStatusCode(clock) = 8

----------------------------------------------------------------------------
(* A mismatch that clears and comes back: the pilot stays connected, the     *)
(* OCPP status of the telemetry changes between ticks, and the cooldown is   *)
(* longer than the three polling intervals a mismatch needs to clear, come   *)
(* back and pass the threshold                                               *)

ReappearIniFile ==
    [PollingIntervalSeconds |-> 300, AutoRestartOCPP |-> TRUE,
     OCPPMismatchSeconds |-> 0, OCPPRestartCooldown |-> 1200,
     OCPPMaxRestarts |-> 1, OCPPFullReboot |-> TRUE,
     PilotErrorReboot |-> FALSE, PilotErrorSeconds |-> 0]

InitReappear ==
    /\ clock = StartTime
    /\ c = ApplyDefaults(ReappearIniFile)
    /\ HasTelemetry = TRUE
    /\ telControlPilotStatus = 178
    /\ telOCPPStatus = 8
    /\ telemetryOCPPStatus = -1
    /\ telemetryOCPPUpdated = Zero
    /\ journalOCPPStatus = -1
    /\ journalOCPPUpdated = Zero
    /\ InitBridge
    /\ watcher = Watching

TickReappear == TickOf(MaxReappearTicks, RunOutcomes)

\* a telemetry event with the OCPP status
OCPPStatusEvent ==
    /\ \E v \in TelemetryOCPPValues : updateTelemetryField("SENSOR_OCPP_STATUS", v)
    /\ UNCHANGED <<event, watcher, cvars>>

NextReappear ==
    \/ TickReappear
    \/ OCPPStatusEvent
    \/ RebootTask

SpecReappear == InitReappear /\ [][NextReappear]_vars

\* the ticker keeps firing and the polling loop keeps receiving from it
SpecReappearLive == SpecReappear /\ WF_vars(TickReappear)

----------------------------------------------------------------------------
(* The goroutines on w.ocppStatusMux, statement by statement: the Set calls  *)
(* of the sources, updateTelemetryField, and the reads the polling loop      *)
(* makes for pilotConnected and OCPPStatusCode                               *)

\* sync.RWMutex: Lock() returns when nobody holds the mutex
LockFree(m) == m.writer = "none" /\ m.readers = {}

\* an RLock() that does not wait for the writer
RLockFree_NoWait(m) == TRUE

\* sync.RWMutex: RLock() returns when no writer holds the mutex
RLockFree(m) == m.writer = "none"

\* the slot a source goroutine writes
SlotOf(t) == IF t = "watcher" THEN "journal" ELSE "session"

\* codes the sources store
MuxCodes == {1, 2}

InitMux ==
    /\ clock = StartTime
    /\ c = ApplyDefaults(SourcesIniFile)
    /\ InitWallbox
    /\ InitBridge
    /\ watcher = Watching

\* SetJournalOCPPStatus / SetTelemetryOCPPStatus: w.ocppStatusMux.Lock()
SetLock(t) ==
    /\ mux.pc[t] = "idle"
    /\ mux.calls < MaxMuxCalls
    /\ LockFree(mux)
    /\ \E code \in MuxCodes :
          mux' = [mux EXCEPT !.writer = t, !.pc[t] = "code", !.arg[t] = code,
                             !.calls = @ + 1]
    /\ UNCHANGED <<clock, c, wvars, hvars, tick, pendingReboots, event, watcher, loop, lifecycle>>

\* w.journalOCPPStatus = code / w.telemetryOCPPStatus = code
SetCode(t) ==
    /\ mux.pc[t] = "code"
    /\ IF t = "watcher"
       THEN journalOCPPStatus' = mux.arg[t] /\ UNCHANGED telemetryOCPPStatus
       ELSE telemetryOCPPStatus' = mux.arg[t] /\ UNCHANGED journalOCPPStatus
    /\ mux' = [mux EXCEPT !.pc[t] = "stamp"]
    /\ UNCHANGED <<HasTelemetry, telControlPilotStatus, telOCPPStatus,
                   telemetryOCPPUpdated, journalOCPPUpdated>>
    /\ UNCHANGED <<clock, c, hvars, tick, pendingReboots, event, watcher, loop, lifecycle>>

\* w.journalOCPPUpdated = time.Now() / w.telemetryOCPPUpdated = time.Now()
SetStamp(t) ==
    /\ mux.pc[t] = "stamp"
    /\ IF t = "watcher"
       THEN journalOCPPUpdated' = clock /\ UNCHANGED telemetryOCPPUpdated
       ELSE telemetryOCPPUpdated' = clock /\ UNCHANGED journalOCPPUpdated
    /\ mux' = [mux EXCEPT !.pc[t] = "unlock",
                          !.written[SlotOf(t)] = @ \cup {<<mux.arg[t], clock>>}]
    /\ UNCHANGED <<HasTelemetry, telControlPilotStatus, telOCPPStatus,
                   telemetryOCPPStatus, journalOCPPStatus>>
    /\ UNCHANGED <<clock, c, hvars, tick, pendingReboots, event, watcher, loop, lifecycle>>

\* w.ocppStatusMux.Unlock()
SetUnlock(t) ==
    /\ mux.pc[t] = "unlock"
    /\ mux' = [mux EXCEPT !.writer = "none", !.pc[t] = "idle"]
    /\ UNCHANGED <<clock, c, wvars, hvars, tick, pendingReboots, event, watcher, loop, lifecycle>>

\* updateTelemetryField, a mapped sensor: w.HasTelemetry = true
FieldHasTelemetry ==
    /\ mux.pc["subscription"] = "idle"
    /\ mux.calls < MaxMuxCalls
    /\ HasTelemetry' = TRUE
    /\ \E v \in {161, 178} :
          mux' = [mux EXCEPT !.pc["subscription"] = "field",
                             !.arg["subscription"] = v, !.calls = @ + 1]
    /\ UNCHANGED <<telControlPilotStatus, telOCPPStatus,
                   telemetryOCPPStatus, telemetryOCPPUpdated,
                   journalOCPPStatus, journalOCPPUpdated>>
    /\ UNCHANGED <<clock, c, hvars, tick, pendingReboots, event, watcher, loop, lifecycle>>

\* updateTelemetryField: v.Field(i).SetFloat(value), the control pilot status
FieldSetFloat ==
    /\ mux.pc["subscription"] = "field"
    /\ telControlPilotStatus' = mux.arg["subscription"]
    /\ mux' = [mux EXCEPT !.pc["subscription"] = "idle"]
    /\ UNCHANGED <<HasTelemetry, telOCPPStatus,
                   telemetryOCPPStatus, telemetryOCPPUpdated,
                   journalOCPPStatus, journalOCPPUpdated>>
    /\ UNCHANGED <<clock, c, hvars, tick, pendingReboots, event, watcher, loop, lifecycle>>

\* the polling loop evaluates pilotConnected: it reads w.HasTelemetry
ReadHasTelemetry ==
    /\ mux.pc["loop"] = "idle"
    /\ mux.reads < MaxMuxReads
    /\ mux' = [mux EXCEPT !.seen.has = HasTelemetry,
                          !.pc["loop"] = IF HasTelemetry THEN "pilot" ELSE "j_rlock"]
    /\ UNCHANGED <<clock, c, wvars, hvars, tick, pendingReboots, event, watcher, loop, lifecycle>>

\* ... and, HasTelemetry being true, the control pilot status
ReadPilot ==
    /\ mux.pc["loop"] = "pilot"
    /\ mux' = [mux EXCEPT !.seen.pilot = telControlPilotStatus,
                          !.pc["loop"] = "j_rlock"]
    /\ UNCHANGED <<clock, c, wvars, hvars, tick, pendingReboots, event, watcher, loop, lifecycle>>

\* getJournalOCPPStatus / getTelemetryOCPPStatus: w.ocppStatusMux.RLock()
GetRLock(slot, at, to) ==
    /\ mux.pc["loop"] = at
    /\ RLockFree(mux)
    /\ mux' = [mux EXCEPT !.readers = @ \cup {"loop"}, !.pc["loop"] = to,
                          !.got = [slot |-> slot, code |-> -1, ts |-> Zero,
                                   complete |-> FALSE]]
    /\ UNCHANGED <<clock, c, wvars, hvars, tick, pendingReboots, event, watcher, loop, lifecycle>>

\* code := w.journalOCPPStatus / w.telemetryOCPPStatus
GetCode(slot, at, to) ==
    /\ mux.pc["loop"] = at
    /\ mux' = [mux EXCEPT !.got.code = IF slot = "journal" THEN journalOCPPStatus
                                       ELSE telemetryOCPPStatus,
                          !.pc["loop"] = to]
    /\ UNCHANGED <<clock, c, wvars, hvars, tick, pendingReboots, event, watcher, loop, lifecycle>>

\* ts := w.journalOCPPUpdated / w.telemetryOCPPUpdated
GetStamp(slot, at, to) ==
    /\ mux.pc["loop"] = at
    /\ mux' = [mux EXCEPT !.got.ts = IF slot = "journal" THEN journalOCPPUpdated
                                     ELSE telemetryOCPPUpdated,
                          !.got.complete = TRUE,
                          !.pc["loop"] = to]
    /\ UNCHANGED <<clock, c, wvars, hvars, tick, pendingReboots, event, watcher, loop, lifecycle>>

\* w.ocppStatusMux.RUnlock(), then the test of the pair read: OCPPStatusCode
\* returns the code of a fresh slot, and goes on to `next` otherwise
GetRUnlock(at, next) ==
    /\ mux.pc["loop"] = at
    /\ LET ok == mux.got.code >= 0 /\ clock - mux.got.ts < StaleAfter
       IN  mux' = [mux EXCEPT !.readers = @ \ {"loop"},
                              !.pc["loop"] = IF ok THEN "idle" ELSE next,
                              !.code = IF ok THEN mux.got.code ELSE @,
                              !.reads = IF ok THEN @ + 1 ELSE @]
    /\ UNCHANGED <<clock, c, wvars, hvars, tick, pendingReboots, event, watcher, loop, lifecycle>>

\* OCPPStatusCode: return int(w.Data.RedisTelemetry.OCPPStatus)
ReadRaw ==
    /\ mux.pc["loop"] = "raw"
    /\ mux' = [mux EXCEPT !.code = telOCPPStatus, !.pc["loop"] = "idle",
                          !.reads = @ + 1]
    /\ UNCHANGED <<clock, c, wvars, hvars, tick, pendingReboots, event, watcher, loop, lifecycle>>

\* a second passes
TimePasses ==
    /\ clock < StartTime + MaxMuxTime
    /\ clock' = clock + 1
    /\ UNCHANGED <<c, wvars, hvars, tick, pendingReboots, event, watcher, cvars>>

SourceStep ==
    \E t \in {"watcher", "subscription"} :
        SetLock(t) \/ SetCode(t) \/ SetStamp(t) \/ SetUnlock(t)

FieldStep == FieldHasTelemetry \/ FieldSetFloat

LoopStep ==
    \/ ReadHasTelemetry
    \/ ReadPilot
    \/ GetRLock("journal", "j_rlock", "j_code")
    \/ GetCode("journal", "j_code", "j_stamp")
    \/ GetStamp("journal", "j_stamp", "j_runlock")
    \/ GetRUnlock("j_runlock", "s_rlock")
    \/ GetRLock("session", "s_rlock", "s_code")
    \/ GetCode("session", "s_code", "s_stamp")
    \/ GetStamp("session", "s_stamp", "s_runlock")
    \/ GetRUnlock("s_runlock", "raw")
    \/ ReadRaw

NextMux ==
    \/ SourceStep
    \/ FieldStep
    \/ LoopStep
    \/ TimePasses

SpecMux == InitMux /\ [][NextMux]_vars

----------------------------------------------------------------------------
(* One tick of the polling loop as the steps it is made of, with the source  *)
(* goroutines running between the steps                                      *)

\* the tick record of the tick the loop is in
TickRecord(l, published) ==
    [n |-> tick.n + 1,
     pilotConnected |-> l.pilotConnected,
     ocppIndicatesDisconnect |-> l.ocppIndicatesDisconnect,
     ocppCode |-> l.ocppCode,
     pilotCode |-> ControlPilotCode(l.legacy),
     detector |-> l.detector,
     cmds |-> l.cmds,
     attempts |-> (IF l.episode THEN tick.attempts ELSE 0)
                  + (IF l.cmds # <<>> THEN 1 ELSE 0),
     spawned |-> l.spawned,
     published |-> published]

\* ocppMismatchState, mismatchStart and ocppRestartCount as the detector step
\* of this tick left them
DetectorResult ==
    [state |-> ocppMismatchState, start |-> mismatchStart, count |-> ocppRestartCount]

\* case <-ticker.C: w.RefreshData(); now := time.Now()
StepRefresh ==
    /\ loop.pc = "wait"
    /\ tick.n < MaxStepTicks
    /\ clock' = clock + c.PollingIntervalSeconds
    /\ \E legacy \in LegacyStates :
          loop' = [NoLoop EXCEPT !.pc = "detect", !.now = clock', !.legacy = legacy,
                                 !.order = <<"refresh">>]
    /\ UNCHANGED <<c, wvars, hvars, tick, pendingReboots, event, watcher, mux, lifecycle>>

\* pilotConnected, ocppCode, ocppIndicatesDisconnect and the detector
StepDetect ==
    /\ loop.pc = "detect"
    /\ LET pilotConnected == PilotConnected(loop.legacy)
           indicatesDisconnect == OCPPIndicatesDisconnect(loop.now)
           d == MismatchDetector(pilotConnected, indicatesDisconnect, loop.now)
       IN  /\ ocppMismatchState' = d.state
           /\ mismatchStart' = d.start
           /\ ocppRestartCount' = d.count
           /\ loop' = [loop EXCEPT !.pc = "heal",
                                   !.pilotConnected = pilotConnected,
                                   !.ocppIndicatesDisconnect = indicatesDisconnect,
                                   !.ocppCode = OCPPStatusCode(loop.now),
                                   !.detector = d,
                                   !.episode = d.state = "1" /\ ~IsZero(mismatchStart),
                                   !.order = Append(@, "detect")]
    /\ UNCHANGED <<lastRestart, lastFullReboot, pilotErrorStart, lastPilotErrorReboot,
                   ocppLastRestart, ocppLastHealAction, ocppLastHealError,
                   ocppLastHealAt, ocppLastHealDetail>>
    /\ UNCHANGED <<clock, c, wvars, tick, pendingReboots, event, watcher, mux, lifecycle>>

\* the healing controller; a failed attempt ends the tick (`continue`)
StepHeal ==
    /\ loop.pc = "heal"
    /\ LET d == DetectorResult
           outs == IF HealDue(d, loop.now) /\ RestartAllowed(d)
                   THEN RunOutcomes ELSE {AllSucceed}
       IN  \E out \in outs :
             LET h == HealingController(d, out, loop.now)
                 l == [loop EXCEPT !.cmds = h.cmds, !.spawned = h.spawned,
                                   !.order = Append(@, "heal")]
             IN  /\ mismatchStart' = h.start
                 /\ ocppRestartCount' = h.count
                 /\ lastRestart' = h.lastRestart
                 /\ ocppLastRestart' = h.lastRestartText
                 /\ lastFullReboot' = h.lastFullReboot
                 /\ ocppLastHealAction' = h.action
                 /\ ocppLastHealDetail' = h.detail
                 /\ ocppLastHealAt' = h.at
                 /\ ocppLastHealError' = h.error
                 /\ pendingReboots' = pendingReboots + Cardinality(h.spawned)
                 /\ IF h.skipRest
                    THEN /\ tick' = TickRecord(l, FALSE)
                         /\ loop' = [l EXCEPT !.pc = "wait"]
                    ELSE /\ tick' = tick
                         /\ loop' = [l EXCEPT !.pc = "net"]
    /\ UNCHANGED <<ocppMismatchState, pilotErrorStart, lastPilotErrorReboot>>
    /\ UNCHANGED <<clock, c, wvars, event, watcher, mux, lifecycle>>

\* the pilot-error safety net
StepNet ==
    /\ loop.pc = "net"
    /\ LET p == PilotErrorNet(ControlPilotCode(loop.legacy), loop.now)
       IN  /\ pilotErrorStart' = p.start
           /\ lastPilotErrorReboot' = p.lastReboot
           /\ pendingReboots' = pendingReboots + Cardinality(p.spawned)
           /\ loop' = [loop EXCEPT !.pc = "report",
                                   !.spawned = @ \cup p.spawned,
                                   !.order = Append(@, "net")]
    /\ UNCHANGED <<ocppMismatchState, mismatchStart, lastRestart, ocppRestartCount,
                   lastFullReboot, ocppLastRestart, ocppLastHealAction,
                   ocppLastHealError, ocppLastHealAt, ocppLastHealDetail>>
    /\ UNCHANGED <<clock, c, wvars, tick, event, watcher, mux, lifecycle>>

\* the publish loop
StepReport ==
    /\ loop.pc = "report"
    /\ LET l == [loop EXCEPT !.order = Append(@, "report")]
       IN  /\ tick' = TickRecord(l, TRUE)
           /\ loop' = [l EXCEPT !.pc = "wait"]
    /\ UNCHANGED <<clock, c, wvars, hvars, pendingReboots, event, watcher, mux, lifecycle>>

NextSteps ==
    \/ StepRefresh
    \/ StepDetect
    \/ StepHeal
    \/ StepNet
    \/ StepReport
    \/ TelemetryEvent
    \/ RebootTask

\* escalation and safety net enabled; the polling interval is as long as the
\* default cooldown, so that the tick after a restart can escalate
StepsIniFile ==
    [PollingIntervalSeconds |-> 600, AutoRestartOCPP |-> TRUE,
     OCPPMismatchSeconds |-> 0, OCPPRestartCooldown |-> 0,
     OCPPMaxRestarts |-> 1, OCPPFullReboot |-> TRUE,
     PilotErrorReboot |-> TRUE, PilotErrorSeconds |-> 0]

InitSteps == Started(StepsIniFile)

SpecSteps == InitSteps /\ [][NextSteps]_vars

----------------------------------------------------------------------------
(* StartOCPPJournalWatcher, StopOCPPJournalWatcher and the watcher           *)
(* goroutines, each named by the channel it was started with                 *)

\* the goroutine returns: the deferred Kill and Wait, then the deferred
\* w.journalStopCh = nil
WatcherReturns(l, id) ==
    [l EXCEPT !.pc[id] = "exited", !.process[id] = FALSE, !.journalStopCh = 0]

\* StartOCPPJournalWatcher with w.journalStopCh nil: make the channel, store
\* it, start the goroutine (with the field set it returns at once)
StartWatcher ==
    /\ ~lifecycle.panicked
    /\ lifecycle.stop = "idle"
    /\ lifecycle.journalStopCh = 0
    /\ lifecycle.made < MaxWatcherStarts
    /\ LET id == lifecycle.made + 1
       IN  lifecycle' = [lifecycle EXCEPT !.made = id, !.journalStopCh = id,
                                          !.pc[id] = "start"]
    /\ UNCHANGED <<clock, c, wvars, hvars, tick, pendingReboots, event, watcher,
                   mux, loop>>

\* cmd.StdoutPipe() and cmd.Start()
WatcherCommand(id) ==
    /\ ~lifecycle.panicked
    /\ lifecycle.pc[id] = "start"
    /\ \E ok \in BOOLEAN :
          lifecycle' = IF ok
                       THEN [lifecycle EXCEPT !.pc[id] = "select", !.process[id] = TRUE]
                       ELSE WatcherReturns(lifecycle, id)
    /\ UNCHANGED <<clock, c, wvars, hvars, tick, pendingReboots, event, watcher,
                   mux, loop>>

\* select { case <-stopCh: return; default: }
WatcherChecksStop(id) ==
    /\ ~lifecycle.panicked
    /\ lifecycle.pc[id] = "select"
    /\ lifecycle' = IF id \in lifecycle.closed
                    THEN WatcherReturns(lifecycle, id)
                    ELSE [lifecycle EXCEPT !.pc[id] = "scan"]
    /\ UNCHANGED <<clock, c, wvars, hvars, tick, pendingReboots, event, watcher,
                   mux, loop>>

\* scanner.Scan() returns a line, which the goroutine handles
WatcherLine(id) ==
    /\ ~lifecycle.panicked
    /\ lifecycle.pc[id] = "scan"
    /\ \E line \in StatusLines : JournalLine(line)
    /\ lifecycle' = [lifecycle EXCEPT !.pc[id] = "select"]
    /\ UNCHANGED <<event, watcher, mux, loop>>

\* scanner.Scan() returns false: end of the stream or read error
WatcherScanFails(id) ==
    /\ ~lifecycle.panicked
    /\ lifecycle.pc[id] = "scan"
    /\ lifecycle' = WatcherReturns(lifecycle, id)
    /\ UNCHANGED <<clock, c, wvars, hvars, tick, pendingReboots, event, watcher,
                   mux, loop>>

\* StopOCPPJournalWatcher: if w.journalStopCh == nil { return }
StopChecksNil ==
    /\ ~lifecycle.panicked
    /\ lifecycle.stop = "idle"
    /\ lifecycle.journalStopCh # 0
    /\ lifecycle' = [lifecycle EXCEPT !.stop = "close"]
    /\ UNCHANGED <<clock, c, wvars, hvars, tick, pendingReboots, event, watcher,
                   mux, loop>>

\* StopOCPPJournalWatcher: close(w.journalStopCh); w.journalStopCh = nil.
\* close panics on a nil and on a closed channel
StopCloses ==
    /\ ~lifecycle.panicked
    /\ lifecycle.stop = "close"
    /\ LET ch == lifecycle.journalStopCh
       IN  lifecycle' = IF ch = 0 \/ ch \in lifecycle.closed
                        THEN [lifecycle EXCEPT !.panicked = TRUE]
                        ELSE [lifecycle EXCEPT !.closed = @ \cup {ch},
                                               !.journalStopCh = 0,
                                               !.stop = "idle"]
    /\ UNCHANGED <<clock, c, wvars, hvars, tick, pendingReboots, event, watcher,
                   mux, loop>>

NextLifecycle ==
    \/ StartWatcher
    \/ StopChecksNil
    \/ StopCloses
    \/ \E id \in 1..MaxWatcherStarts :
          \/ WatcherCommand(id)
          \/ WatcherChecksStop(id)
          \/ WatcherLine(id)
          \/ WatcherScanFails(id)

SpecLifecycle == InitMux /\ [][NextLifecycle]_vars

----------------------------------------------------------------------------
(* The polling loop under the ini files of Spec and under the scenario's     *)
(* ini file                                                                  *)

InScenario == c = ApplyDefaults(ScenarioIniFile)

InitCadence == Init \/ InitScenario

NextCadence ==
    \/ (InScenario /\ NextScenario)
    \/ (~InScenario /\ Next)

SpecCadence == InitCadence /\ [][NextCadence]_vars

----------------------------------------------------------------------------
(* Claims about the mismatch detector and the healing controller             *)

\* this step is a tick of the polling loop
TickStep == tick'.n = tick.n + 1

\* pilot_connected and ocpp_indicates_disconnect both held on tick t
Conjunction(t) == t.pilotConnected /\ t.ocppIndicatesDisconnect

\* tick t ran restartCriticalServices
Attempted(t) == t.cmds # <<>>

\* tick t ran restartCriticalServices and it returned an error
AttemptFailed(t) == Attempted(t) /\ ~t.published

\* how often command x was run
Count(cmds, x) == Cardinality({ i \in DOMAIN cmds : cmds[i] = x })

\* the last heal record is as it was
HealRecordUnchanged ==
    UNCHANGED <<ocppLastHealAction, ocppLastHealDetail, ocppLastHealAt,
                ocppLastHealError>>

\* C3: at the end of the detector step of every tick the mismatch is active
\* exactly when pilot_connected and ocpp_indicates_disconnect both hold on
\* that tick; on the tick it first becomes active started_at is stamped with
\* that tick's time and restart_count is 0; on any tick where the conjunction
\* fails the window is fully reset (not active, started_at zero, count 0)
C3_DetectorStep ==
    /\ [](tick.n > 0 =>
            /\ (tick.detector.state = "1") <=> Conjunction(tick)
            /\ ocppMismatchState = tick.detector.state
            /\ ~Conjunction(tick) =>
                  /\ tick.detector = [state |-> "0", start |-> Zero, count |-> 0]
                  /\ ocppMismatchState = "0"
                  /\ mismatchStart = Zero
                  /\ ocppRestartCount = 0)
    /\ [][(TickStep /\ ocppMismatchState = "0" /\ Conjunction(tick')) =>
            /\ tick'.detector = [state |-> "1", start |-> clock', count |-> 0]
            /\ ocppMismatchState' = "1"
            /\ mismatchStart' = clock'
            /\ ocppRestartCount' = 0]_vars

\* C3 witness: the tick on which the mismatch first became active
C3_Witness ==
    /\ tick.n > 1
    /\ Conjunction(tick)
    /\ ocppMismatchState = "1"
    /\ tick.detector.start = clock
    /\ mismatchStart = clock
    /\ ocppRestartCount = 0

\* C4: at every tick boundary, after the detector step and after the healing
\* step, started_at is the zero time exactly when the mismatch is not active
C4_StartedAtZeroIffInactive ==
    /\ (mismatchStart = Zero) <=> (ocppMismatchState = "0")
    /\ (tick.detector.start = Zero) <=> (tick.detector.state = "0")

\* C4 witness: the healing step ran a restart on a tick of an active mismatch
C4_Witness ==
    /\ Attempted(tick)
    /\ ocppMismatchState = "1"
    /\ tick.detector.start # Zero
    /\ mismatchStart # Zero

\* C5 as stated: within a contiguous run of ticks on which the conjunction
\* holds started_at is set once, on the first tick of the run, and never
\* assigned again later in the run; it is cleared on the first tick on which
\* the conjunction fails
C5_StampedExactlyOnce ==
    [][TickStep =>
        /\ ~Conjunction(tick') => mismatchStart' = Zero
        /\ (Conjunction(tick') /\ ocppMismatchState = "0") => mismatchStart' = clock'
        /\ (Conjunction(tick') /\ ocppMismatchState = "1") =>
              mismatchStart' = mismatchStart]_vars

\* C5 amended: within a contiguous run of ticks on which the conjunction
\* holds the detector stamps started_at once, on the first tick of the run;
\* later in the run it changes only on a tick whose restart attempt
\* succeeded, which re-stamps it with that tick's time; it is cleared on the
\* first tick on which the conjunction fails
C5_StampedOnceOrAfterRestart ==
    [][TickStep =>
        /\ ~Conjunction(tick') => mismatchStart' = Zero
        /\ (Conjunction(tick') /\ ocppMismatchState = "0") => mismatchStart' = clock'
        /\ (Conjunction(tick') /\ ocppMismatchState = "1") =>
              /\ tick'.detector.start = mismatchStart
              /\ \/ mismatchStart' = mismatchStart
                 \/ /\ Attempted(tick') /\ ~AttemptFailed(tick')
                    /\ mismatchStart' = clock'
                    /\ lastRestart' = clock']_vars

\* C5 witness: a successful restart re-stamped started_at inside a run that
\* the detector had stamped on an earlier tick
C5_Witness ==
    /\ Conjunction(tick)
    /\ tick.detector.start # Zero
    /\ tick.detector.start < clock
    /\ Attempted(tick) /\ ~AttemptFailed(tick)
    /\ mismatchStart = clock
    /\ lastRestart = clock

\* C6: on every tick where the mismatch has been active for less than the
\* threshold (now - started_at < threshold) the healing controller takes no
\* action: it runs no stop/start/restart and issues no reboot, and leaves
\* restart_count, last_restart_at, last_full_reboot_at and the last heal
\* record unchanged
C6_NoActionBeforeThreshold ==
    [][(/\ TickStep
        /\ tick'.detector.state = "1"
        /\ clock' - tick'.detector.start < c.OCPPMismatchSeconds) =>
            /\ tick'.cmds = <<>>
            /\ "ocpp_heal" \notin tick'.spawned
            /\ ocppRestartCount' = ocppRestartCount
            /\ ocppRestartCount' = tick'.detector.count
            /\ mismatchStart' = tick'.detector.start
            /\ UNCHANGED <<lastRestart, ocppLastRestart, lastFullReboot>>
            /\ HealRecordUnchanged]_vars

\* C6 witness: a mismatch one tick old, younger than the threshold, with
\* auto-heal on and nothing done
C6_Witness ==
    /\ c.AutoRestartOCPP
    /\ ocppMismatchState = "1"
    /\ tick.detector.start = mismatchStart
    /\ clock - mismatchStart > 0
    /\ clock - mismatchStart < c.OCPPMismatchSeconds
    /\ tick.cmds = <<>>
    /\ ocppLastHealAt = Never

\* C7: with auto-heal enabled, on the first tick where the mismatch has
\* been active for at least the threshold and no restart has ever been
\* performed, the healing controller makes exactly one restart attempt on
\* that tick; when the attempt succeeds restart_count becomes 1,
\* last_restart_at is that tick's time and started_at is re-stamped with it
C7_FirstRestart ==
    [][(/\ TickStep
        /\ c.AutoRestartOCPP
        /\ tick'.detector.state = "1"
        /\ clock' - tick'.detector.start >= c.OCPPMismatchSeconds
        /\ lastRestart = Zero) =>
            /\ Attempted(tick')
            /\ Count(tick'.cmds, "systemctl stop") = 1
            /\ ocppLastHealAt' = FormatRFC3339(clock')
            /\ ~AttemptFailed(tick') =>
                  /\ ocppRestartCount' = 1
                  /\ lastRestart' = clock'
                  /\ ocppLastRestart' = FormatRFC3339(clock')
                  /\ mismatchStart' = clock']_vars

\* C7 witness: the first restart of the earliest possible run under a
\* threshold of two polling intervals, and it succeeded
C7_Witness ==
    /\ c.OCPPMismatchSeconds = 2 * c.PollingIntervalSeconds
    /\ tick.n = 3
    /\ tick.detector.count = 0
    /\ clock - tick.detector.start >= c.OCPPMismatchSeconds
    /\ Attempted(tick) /\ ~AttemptFailed(tick)
    /\ ocppRestartCount = 1
    /\ lastRestart = clock
    /\ mismatchStart = clock

\* seconds since the first tick, the tick on which the scenario's mismatch
\* began
ScenarioTime == clock - (StartTime + c.PollingIntervalSeconds)

\* C8: a restart attempt fires only on a tick where now - started_at >=
\* threshold and last_restart_at is unset or now - last_restart_at >=
\* cooldown, so two consecutive successful restarts are at least a cooldown
\* apart; with threshold 60, cooldown 600, max_restarts 3 and a mismatch that
\* begins at t = 0 and persists, the restarts happen at t = 60, 660 and 1260
\* and at no tick in between
C8_RestartCadence ==
    /\ [][(TickStep /\ Attempted(tick')) =>
            /\ clock' - tick'.detector.start >= c.OCPPMismatchSeconds
            /\ \/ lastRestart = Zero
               \/ clock' - lastRestart >= c.OCPPRestartCooldown]_vars
    /\ [][(lastRestart' # lastRestart /\ lastRestart # Zero) =>
            lastRestart' - lastRestart >= c.OCPPRestartCooldown]_vars
    /\ [](InScenario /\ tick.n > 0 =>
            /\ Attempted(tick) <=> ScenarioTime \in {60, 660, 1260}
            /\ Attempted(tick) => lastRestart = clock /\ mismatchStart = clock
            /\ ocppRestartCount = IF ScenarioTime < 60 THEN 0
                                  ELSE IF ScenarioTime < 660 THEN 1
                                  ELSE IF ScenarioTime < 1260 THEN 2
                                  ELSE 3)

\* C8 witness: the third restart of the scenario, at t = 1260
C8_Witness ==
    /\ InScenario
    /\ ScenarioTime = 1260
    /\ Attempted(tick)
    /\ ocppRestartCount = 3
    /\ lastRestart = clock

\* C9: when restartCriticalServices returns an error, restart_count and
\* started_at are left unchanged and the error is recorded in the last heal
\* record; the next attempt is made only after the cooldown has elapsed
\* again, so the failed attempt is never retried on the immediately
\* following tick
C9_FailedAttemptNotRetriedNextTick ==
    [][TickStep =>
        /\ AttemptFailed(tick') =>
              /\ ocppRestartCount' = tick'.detector.count
              /\ mismatchStart' = tick'.detector.start
              /\ ocppLastHealError' = ocppLastHealDetail'
              /\ ocppLastHealError' # ""
              /\ ocppLastHealAt' = FormatRFC3339(clock')
        /\ (AttemptFailed(tick) /\ c.PollingIntervalSeconds < c.OCPPRestartCooldown) =>
              ~Attempted(tick')]_vars

\* C10: once restart_count has reached max_restarts, with escalation enabled,
\* the mismatch still active and threshold and cooldown elapsed, the healing
\* controller issues exactly one reboot and stamps last_full_reboot_at; it
\* issues no second escalation reboot while now - last_full_reboot_at <
\* cooldown, even if the mismatch persists
C10_EscalationReboot ==
    /\ [][(/\ TickStep
           /\ c.AutoRestartOCPP /\ c.OCPPFullReboot
           /\ tick'.detector.state = "1"
           /\ tick'.detector.count >= c.OCPPMaxRestarts
           /\ clock' - tick'.detector.start >= c.OCPPMismatchSeconds
           /\ clock' - lastRestart >= c.OCPPRestartCooldown
           /\ \/ lastFullReboot = Zero
              \/ clock' - lastFullReboot >= c.OCPPRestartCooldown) =>
              /\ "ocpp_heal" \in tick'.spawned
              /\ tick'.cmds = <<>>
              /\ pendingReboots' - pendingReboots =
                    1 + Cardinality(tick'.spawned \cap {"pilot_error"})
              /\ lastFullReboot' = clock']_vars
    /\ [][(/\ TickStep
           /\ lastFullReboot # Zero
           /\ clock' - lastFullReboot < c.OCPPRestartCooldown) =>
              /\ "ocpp_heal" \notin tick'.spawned
              /\ lastFullReboot' = lastFullReboot]_vars

\* C10 witness: one polling interval after the escalation reboot the mismatch
\* persists, the restarts stay exhausted, threshold and restart cooldown have
\* elapsed, and no second reboot was issued
C10_Witness ==
    /\ c.OCPPFullReboot
    /\ ocppMismatchState = "1"
    /\ ocppRestartCount >= c.OCPPMaxRestarts
    /\ clock - mismatchStart >= c.OCPPMismatchSeconds
    /\ clock - lastRestart >= c.OCPPRestartCooldown
    /\ lastFullReboot # Zero
    /\ clock - lastFullReboot = c.PollingIntervalSeconds
    /\ clock - lastFullReboot < c.OCPPRestartCooldown
    /\ "ocpp_heal" \notin tick.spawned

\* C11: when restart_count >= max_restarts and full-reboot escalation is
\* disabled, the healing controller performs no restart and no reboot on any
\* tick of the persisting mismatch, and restart_count, last_restart_at and
\* started_at stay unchanged until the mismatch clears
C11_ExhaustedWithoutEscalation ==
    [][(/\ TickStep
        /\ c.AutoRestartOCPP /\ ~c.OCPPFullReboot
        /\ tick'.detector.state = "1"
        /\ tick'.detector.count >= c.OCPPMaxRestarts) =>
            /\ tick'.cmds = <<>>
            /\ "ocpp_heal" \notin tick'.spawned
            /\ UNCHANGED <<ocppRestartCount, lastRestart, mismatchStart,
                           lastFullReboot, ocppLastRestart>>
            /\ HealRecordUnchanged]_vars

\* C11 witness: the restarts are used up, escalation is off, threshold and
\* cooldown have elapsed since the last restart, and the tick did nothing
C11_Witness ==
    /\ c.AutoRestartOCPP /\ ~c.OCPPFullReboot
    /\ ocppMismatchState = "1"
    /\ ocppRestartCount >= c.OCPPMaxRestarts
    /\ mismatchStart = lastRestart
    /\ clock - mismatchStart >= c.OCPPMismatchSeconds
    /\ clock - lastRestart >= c.OCPPRestartCooldown
    /\ tick.cmds = <<>>
    /\ tick.spawned = {}
    /\ lastFullReboot = Zero

\* C12: no repair action is retried indefinitely: within one contiguous
\* mismatch window the healing controller makes at most max_restarts restart
\* attempts, restart_count never exceeds max_restarts, and no restart attempt
\* is started once restart_count >= max_restarts
C12_BoundedRestartAttempts ==
    /\ [](tick.attempts <= c.OCPPMaxRestarts)
    /\ [](ocppRestartCount <= c.OCPPMaxRestarts)
    /\ [][(TickStep /\ tick'.detector.count >= c.OCPPMaxRestarts) =>
            ~Attempted(tick')]_vars

\* C13: when max_restarts is configured as 0 the restart limit is unlimited:
\* the healing controller makes a restart attempt on every tick on which
\* threshold and cooldown have elapsed, for as long as the mismatch persists,
\* and never enters the escalation branch (the scenario's ini file configures
\* ocpp_max_restarts = 0)
C13_ZeroMeansUnlimited ==
    [][(/\ TickStep
        /\ c = ApplyDefaults(ScenarioIniFile)
        /\ ScenarioIniFile.OCPPMaxRestarts = 0
        /\ c.AutoRestartOCPP
        /\ tick'.detector.state = "1"
        /\ clock' - tick'.detector.start >= c.OCPPMismatchSeconds
        /\ \/ lastRestart = Zero
           \/ clock' - lastRestart >= c.OCPPRestartCooldown) =>
            /\ Attempted(tick')
            /\ "ocpp_heal" \notin tick'.spawned
            /\ lastFullReboot' = Zero]_vars

\* tick t ran the commands of rebootSystem
RebootInvoked(t) ==
    Count(t.cmds, "reboot.sh") + Count(t.cmds, "systemctl reboot") > 0

\* C14: a reboot is opt-in: rebootSystem is invoked only when full-reboot
\* escalation or pilot-error reboot is enabled; with both disabled no tick
\* invokes a reboot, whatever the stop/start/restart commands return
C14_RebootIsOptIn ==
    /\ "ocpp_heal" \in tick.spawned => c.OCPPFullReboot
    /\ "pilot_error" \in tick.spawned => c.PilotErrorReboot
    /\ (~c.OCPPFullReboot /\ ~c.PilotErrorReboot) =>
          /\ ~RebootInvoked(tick)
          /\ tick.spawned = {}
          /\ pendingReboots = 0

\* C15: with pilot-error reboot enabled, when fault code 14 has been observed
\* on every tick since the window opened and the configured duration has
\* elapsed (now - started_at >= duration), the safety net triggers exactly
\* one reboot, stamps last_reboot_at and closes the window; on a tick where
\* the fault code is no longer observed no reboot occurs and started_at is
\* reset to zero
C15_PilotErrorWindow ==
    [][(TickStep /\ c.PilotErrorReboot) =>
        /\ (/\ tick'.pilotCode = PilotErrorCode
            /\ pilotErrorStart # Zero
            /\ clock' - pilotErrorStart >= c.PilotErrorSeconds) =>
              /\ "pilot_error" \in tick'.spawned
              /\ lastPilotErrorReboot' = clock'
              /\ pilotErrorStart' = Zero
        /\ tick'.pilotCode # PilotErrorCode =>
              /\ "pilot_error" \notin tick'.spawned
              /\ pilotErrorStart' = Zero
              /\ lastPilotErrorReboot' = lastPilotErrorReboot]_vars

\* C16: the pilot-error safety net is independent of the healing controller:
\* with pilot-error reboot enabled it is evaluated on every tick, also on
\* ticks where a heal attempt ran or failed, and what it does is decided by
\* the pilot code, its own started_at and its own last_reboot_at alone
C16_SafetyNetIndependent ==
    [][(TickStep /\ c.PilotErrorReboot) =>
        LET now == clock'
            code == tick'.pilotCode
            open == IF pilotErrorStart = Zero THEN now ELSE pilotErrorStart
            fires == /\ code = PilotErrorCode
                     /\ now - open >= c.PilotErrorSeconds
                     /\ \/ lastPilotErrorReboot = Zero
                        \/ now - lastPilotErrorReboot >= c.PilotErrorSeconds
        IN  /\ ("pilot_error" \in tick'.spawned) <=> fires
            /\ lastPilotErrorReboot' = IF fires THEN now ELSE lastPilotErrorReboot
            /\ pilotErrorStart' = IF code # PilotErrorCode \/ fires THEN Zero
                                  ELSE open]_vars

----------------------------------------------------------------------------
(* Claims about the session classifier and the journal parser (SpecEvents)   *)

\* exact rules on which the specification and the code agree
ExactRules ==
    <<"r","e","a","d","y">> :> 1
    @@ <<"f","i","n","i","s","h">> :> 6
    @@ <<"l","o","c","k">> :> 6
    @@ <<"r","e","s","e","r","v","e","d">> :> 7
    @@ <<"u","p","d","a","t","i","n","g">> :> 8
    @@ <<"u","n","a","v","a","i","l","a","b","l","e">> :> 8
    @@ <<"e","r","r","o","r">> :> 9
    @@ <<"u","n","v","i","a","b","l","e">> :> 9

\* the two exact rules as the specification words them
WordedExactRules ==
    <<"w","a","i","t","-","u","n","l","o","c","k">> :> 6
    @@ <<"u","n","c","o","n","f","i","g","u","r","e","d">> :> 8

\* the two exact rules as the code has them
CodedExactRules ==
    <<"w","a","i","t","u","n","l","o","c","k">> :> 6
    @@ <<"p","s","u","n","c","o","n","f","i","g">> :> 8

PrefixRules ==
    <<"c","o","n","n","e","c","t","e","d">> :> 5
    @@ <<"w","a","i","t","i","n","g">> :> 2
    @@ <<"m","i","d">> :> 2
    @@ <<"q","u","e","u","e">> :> 2
    @@ <<"c","h","a","r","g","i","n","g">> :> 3
    @@ <<"d","i","s","c","h","a","r","g","i","n","g">> :> 3
    @@ <<"p","a","u","s","e","d">> :> 5
    @@ <<"s","c","h","e","d","u","l","e","d">> :> 5

\* the classifier's answer for the last session message follows the rules:
\* a normalised label that is a key of `exact` gets that key's code, any
\* other label that starts with a prefix gets the prefix's code
FollowsRules(exact) ==
    event.kind = "session" =>
        LET normalized == normalizeSessionState(event.state) IN
        /\ normalized \in DOMAIN exact =>
               event.mapped = [code |-> exact[normalized], ok |-> TRUE]
        /\ normalized \notin DOMAIN exact =>
               \A p \in DOMAIN PrefixRules :
                   HasPrefix(normalized, p) =>
                       event.mapped = [code |-> PrefixRules[p], ok |-> TRUE]

\* C17 as stated: the classifier maps the normalised label by exact match
\* first (ready 1; finish, lock, wait-unlock 6; reserved 7; updating,
\* unavailable, unconfigured 8; error, unviable 9) and then by prefix
\* (connected 5; waiting, mid, queue 2; charging, discharging 3; paused,
\* scheduled 5)
C17_ClassifierAsWorded == FollowsRules(ExactRules @@ WordedExactRules)

\* C17 amended: the same with the keys waitunlock and psunconfig in place of
\* wait-unlock and unconfigured; "Connected 5" yields 5, "Finish" yields 6,
\* "Wait Unlock" 6 and "PS Unconfig" 8, while "wait-unlock" and
\* "unconfigured" are not recognised
C17_ClassifierAsCoded ==
    /\ FollowsRules(ExactRules @@ CodedExactRules)
    /\ event.kind = "session" =>
          /\ event.state = <<"C","o","n","n","e","c","t","e","d"," ","5">> => event.mapped.code = 5
          /\ event.state = <<"F","i","n","i","s","h">> => event.mapped.code = 6
          /\ event.state = <<"W","a","i","t"," ","U","n","l","o","c","k">> => event.mapped.code = 6
          /\ event.state = <<"P","S"," ","U","n","c","o","n","f","i","g">> => event.mapped.code = 8
          /\ event.state \in {<<"w","a","i","t","-","u","n","l","o","c","k">>, <<"u","n","c","o","n","f","i","g","u","r","e","d">>} => ~event.mapped.ok

\* C17 witness: the second message handled carried a label with a suffix,
\* "Connected 5": it matched the prefix rule connected (5) and the session
\* slot took the code
C17_Witness ==
    /\ event.kind = "session"
    /\ event.n = 2
    /\ event.state = <<"C","o","n","n","e","c","t","e","d"," ","5">>
    /\ event.mapped = [code |-> 5, ok |-> TRUE]
    /\ telemetryOCPPStatus = 5
    /\ telemetryOCPPUpdated = clock

\* the step handles one more session message
SessionStep == event'.n = event.n + 1 /\ event'.kind = "session"

\* the step handles one more journal line
JournalStep == event'.n = event.n + 1 /\ event'.kind = "journal"

\* later times at which the resolver may be read
ReadTimes == {clock, clock + 300, clock + StaleAfter}

\* C18: a session event whose label the classifier does not recognise
\* (e.g. "bogus-state") produces no observation: the session slot's code and
\* timestamp are left unchanged, no default code is written, and the
\* resolver returns what it returned before, now and at later reads
C18_UnrecognisedLabelNoObservation ==
    [][(SessionStep /\ ~event'.mapped.ok) =>
          /\ UNCHANGED <<telemetryOCPPStatus, telemetryOCPPUpdated>>
          /\ UNCHANGED <<journalOCPPStatus, journalOCPPUpdated, telOCPPStatus>>
          /\ \A t \in ReadTimes : OCPPStatusCode(t)' = OCPPStatusCode(t)]_vars

\* C18 witness: "bogus-state" arrived a tick after the session slot took the
\* code 6; the slot still holds that code with its old timestamp and the
\* resolver returns it
C18_Witness ==
    /\ event.kind = "session"
    /\ event.messageID = "EVENT_SESSION_UPDATE"
    /\ event.state = <<"b","o","g","u","s","-","s","t","a","t","e">>
    /\ ~event.mapped.ok
    /\ telemetryOCPPStatus = 6
    /\ telemetryOCPPUpdated # Zero /\ telemetryOCPPUpdated < clock
    /\ OCPPStatusCode(clock) = 6

\* C19: the resolver never receives a code for an unrecognised status
\* string: the journal slot only ever holds its initial -1 or a code 1..9,
\* a line that changes the slot stores the table's code for its status
\* token and the time of reading, and a line whose status token is not in
\* the table leaves the slot's code and timestamp unchanged
C19_JournalSlotFromTable ==
    /\ [](journalOCPPStatus \in {-1} \cup 1..9)
    /\ [](journalOCPPStatus # -1 =>
             \E name \in DOMAIN ocppStatusStringToCode :
                 ocppStatusStringToCode[name] = journalOCPPStatus)
    /\ [][JournalStep =>
            LET token == event'.parsed.status IN
            IF event'.parsed.ok /\ token \in DOMAIN ocppStatusStringToCode
            THEN /\ journalOCPPStatus' = ocppStatusStringToCode[token]
                 /\ journalOCPPUpdated' = clock
            ELSE UNCHANGED <<journalOCPPStatus, journalOCPPUpdated>>]_vars

\* C19 witness: a StatusNotification line with the status "Bogus" was read a
\* tick after the slot took the code 1; the slot still holds 1 with its old
\* timestamp
C19_Witness ==
    /\ event.kind = "journal"
    /\ event.parsed = [status |-> <<"B","o","g","u","s">>, ok |-> TRUE]
    /\ ~event.looked.found
    /\ journalOCPPStatus = 1
    /\ journalOCPPUpdated # Zero /\ journalOCPPUpdated < clock
    /\ OCPPStatusCode(clock) = 1

\* the line contains the literal marker
HasMarker(line) == Contains(line, <<"S","t","a","t","u","s","N","o","t","i","f","i","c","a","t","i","o","n">>)

\* the line has a status field with a quoted, non-empty token
HasQuotedToken(line) == statusNotificationStatusRe(line) # <<>>

\* the token between the quotes of the line's first status field
QuotedToken(line) == statusNotificationStatusRe(line)[2]

\* C20 as stated: the parser yields a status only for lines with the marker
\* "StatusNotification" and a quoted status token, for such a line it
\* returns the token, and for a line without the marker it returns no
\* status even if the line has a status field
C20_ParserReturnsToken ==
    event.kind = "journal" =>
        /\ event.parsed.ok => HasMarker(event.line) /\ HasQuotedToken(event.line)
        /\ (HasMarker(event.line) /\ HasQuotedToken(event.line)) =>
               event.parsed = [status |-> QuotedToken(event.line), ok |-> TRUE]
        /\ ~HasMarker(event.line) => ~event.parsed.ok

\* C20 amended: for a line with the marker and a quoted token the parser
\* returns the token with the white space around it trimmed ("Available"
\* maps to code 1 through the table), and no status when nothing is left of
\* the token; it yields a status for no other line, and none for a line
\* without the marker even if the line has a status field
C20_ParserReturnsTrimmedToken ==
    event.kind = "journal" =>
        LET line == event.line
            blank == TrimSpace(QuotedToken(line)) = <<>>
        IN  /\ event.parsed.ok => HasMarker(line) /\ HasQuotedToken(line)
            /\ (HasMarker(line) /\ HasQuotedToken(line) /\ ~blank) =>
                   event.parsed = [status |-> TrimSpace(QuotedToken(line)), ok |-> TRUE]
            /\ (HasMarker(line) /\ HasQuotedToken(line) /\ blank) => ~event.parsed.ok
            /\ ~HasMarker(line) => ~event.parsed.ok
            /\ line = <<"S","t","a","t","u","s","N","o","t","i","f","i","c","a","t","i","o","n","\"",",","{","\"","e","r","r","o","r","C","o","d","e","\"",":"," ","\"","N","o","E","r","r","o","r","\"",",","\"","s","t","a","t","u","s","\"",":"," ","\"","A","v","a","i","l","a","b","l","e","\"","}","]">> =>
                   /\ event.parsed = [status |-> <<"A","v","a","i","l","a","b","l","e">>, ok |-> TRUE]
                   /\ event.looked = [code |-> 1, found |-> TRUE]
            /\ line = <<"S","t","a","t","u","s","N","o","t","i","f","i","c","a","t","i","o","n","\"",",","{","\"","s","t","a","t","u","s","\""," ",":"," ","\""," ","C","h","a","r","g","i","n","g"," ","\"","}","]">> =>
                   event.parsed = [status |-> <<"C","h","a","r","g","i","n","g">>, ok |-> TRUE]
            /\ line = <<"s","o","m","e"," ","o","t","h","e","r"," ","l","o","g"," ","l","i","n","e"," ","w","i","t","h","o","u","t"," ","S","t","a","t","u","s","N","o","t","i","f","i","c","a","t","i","o","n">> => ~event.parsed.ok
            /\ line = <<"H","e","a","r","t","b","e","a","t","\"",",","{","\"","s","t","a","t","u","s","\"",":"," ","\"","A","v","a","i","l","a","b","l","e","\"","}","]">> => ~event.parsed.ok

\* C20 witness: after a StatusNotification line put the code 1 into the
\* journal slot, a line with a status field and no marker was read and
\* yielded no status
C20_Witness ==
    /\ event.kind = "journal"
    /\ event.n = 2
    /\ event.line = <<"H","e","a","r","t","b","e","a","t","\"",",","{","\"","s","t","a","t","u","s","\"",":"," ","\"","A","v","a","i","l","a","b","l","e","\"","}","]">>
    /\ HasQuotedToken(event.line)
    /\ ~event.parsed.ok
    /\ journalOCPPStatus = 1

----------------------------------------------------------------------------
(* Claims about the inputs of the detector                                   *)

\* the statuses the backend reports for a connector it takes to be free or
\* out of order: Available, Finishing, Unavailable, Faulted
DisconnectStatuses == {1, 6, 8, 9}

C22_AutoHealOffOnlyObserves ==
    ~c.AutoRestartOCPP =>
        /\ tick.cmds = <<>>
        /\ "ocpp_heal" \notin tick.spawned
        /\ pendingReboots = 0
        /\ lastRestart = Zero /\ lastFullReboot = Zero /\ ocppRestartCount = 0
        /\ ocppLastRestart = Never
        /\ ocppLastHealAction = "idle" /\ ocppLastHealAt = Never
        /\ tick.n > 0 =>
              /\ tick.published
              /\ ocppMismatchState = tick.detector.state
              /\ tick.detector.state = "1" <=>
                     (tick.pilotConnected /\ tick.ocppIndicatesDisconnect)

\* C22 witness: the third tick finds a mismatch that has lasted two polling
\* intervals, ten times the threshold, and only publishes it
C22_Witness ==
    /\ ~c.AutoRestartOCPP
    /\ tick.n = 3
    /\ tick.detector.state = "1"
    /\ ocppMismatchState = "1"
    /\ clock - mismatchStart >= 10 * c.OCPPMismatchSeconds
    /\ tick.cmds = <<>>
    /\ tick.published

\* C23: on every tick, whatever the healing controller did on it (nothing,
\* a successful attempt, a failed attempt, an escalation), the publish loop
\* runs after it and hands the sink the current mismatch boolean, last
\* restart time and last heal action, detail, error and time
C23_ReportedOnEveryTick ==
    [][TickStep => tick'.published]_vars

----------------------------------------------------------------------------
(* Claims about the journal watcher task (SpecWatcher)                       *)

\* the watcher task has returned and its journalctl process is gone
WatcherTerminated == watcher.pc = "exited" /\ watcher.process # "running"

\* C24: cancelling the watcher (StopOCPPJournalWatcher, or the cancel
\* function of startOCPPJournalWatcher) eventually terminates the watcher
\* task and kills the tail process, also when the watcher is blocked in a
\* read and no further line ever arrives
C24_CancelTerminatesWatcher == watcher.cancelled ~> WatcherTerminated

----------------------------------------------------------------------------
(* Claims about the pilot state reader                                       *)

\* the control pilot codes of a connected cable: B1, B2, C1, C2, C3
ConnectedPilotCodes == {177, 178, 193, 194, 195}

\* C25: with telemetry present, CableConnected() = 1, which feeds
\* pilot-connected in the detector, holds exactly for the control pilot
\* codes 177, 178, 193, 194 and 195, and not for any other code (161, 162,
\* 0, the fault code 14, unknown codes)
C25_CableConnectedCodes ==
    HasTelemetry =>
        \A legacy \in LegacyStates :
            /\ CableConnected(legacy) = 1 <=> telControlPilotStatus \in ConnectedPilotCodes
            /\ PilotConnected(legacy) => telControlPilotStatus \in ConnectedPilotCodes

----------------------------------------------------------------------------
(* Claims about the healing cadence, continued                               *)

\* the tick issues the first escalation reboot
FirstEscalation == TickStep /\ lastFullReboot = Zero /\ "ocpp_heal" \in tick'.spawned

\* C26 as stated: with started_at re-armed on every successful restart, a
\* mismatch persisting from t = 0 and restarts that all succeed, the
\* escalation reboot is issued at threshold + (max_restarts - 1) * cooldown
\* + threshold (1320 s with 60 s, 600 s and 3)
C26_RebootAfterLastThreshold ==
    [][FirstEscalation =>
         /\ ScenarioTime' = c.OCPPMismatchSeconds
                             + (c.OCPPMaxRestarts - 1) * c.OCPPRestartCooldown
                             + c.OCPPMismatchSeconds
         /\ ScenarioTime' = 1320]_vars

\* C26 amended: the escalation, like a restart, waits for the cooldown since
\* the last restart, so the reboot is issued at threshold + max_restarts *
\* cooldown (1860 s with 60 s, 600 s and 3), and on no earlier tick
C26_RebootAfterLastCooldown ==
    /\ [][FirstEscalation =>
             /\ ScenarioTime' = c.OCPPMismatchSeconds
                                 + c.OCPPMaxRestarts * c.OCPPRestartCooldown
             /\ ScenarioTime' = 1860
             /\ lastFullReboot' = clock'
             /\ lastRestart = mismatchStart
             /\ clock' - lastRestart = c.OCPPRestartCooldown]_vars
    /\ [](lastFullReboot = Zero <=> ScenarioTime < 1860)

\* C26 witness: the tick at t = 1860 of the scenario issues the reboot after
\* the three restarts
C26_Witness ==
    /\ ScenarioTime = 1860
    /\ "ocpp_heal" \in tick.spawned
    /\ ocppRestartCount = 3
    /\ lastFullReboot = clock
    /\ clock - mismatchStart = 600

\* the tick finds the mismatch gone that the tick before had found
ClearingStep == TickStep /\ ocppMismatchState = "1" /\ tick'.detector.state = "0"

C28_CountedOnlyWithoutReboot ==
    [][TickStep =>
         /\ (\/ ocppRestartCount' > tick'.detector.count
             \/ lastRestart' # lastRestart
             \/ mismatchStart' # tick'.detector.start)
              => /\ Attempted(tick')
                 /\ tick'.published
                 /\ ocppLastHealAction' \in {"stop_start", "restart"}
         /\ (Attempted(tick') /\ ocppLastHealAction' = "reboot")
              => /\ ocppRestartCount' = tick'.detector.count
                 /\ lastRestart' = lastRestart
                 /\ mismatchStart' = tick'.detector.start]_vars

----------------------------------------------------------------------------
(* Claims about restartCriticalServices                                      *)

\* the commands of the sequence cmds
CommandsRun(cmds) == { cmds[i] : i \in 1..Len(cmds) }

\* command i of cmds runs before command j
RunsBefore(cmds, a, b) ==
    \E i, j \in 1..Len(cmds) : i < j /\ cmds[i] = a /\ cmds[j] = b

\* the result r is what the outcomes `out` call for
ReportsActionTaken(out, r) ==
    LET graceful == out.stop /\ out.start
        run == CommandsRun(r.cmds)
    IN  /\ r.action \in {"stop_start", "restart", "reboot"}
        /\ r.action = "stop_start" <=> graceful
        /\ r.action = "restart" <=> ~graceful /\ out.restart
        /\ r.action = "reboot" <=> ~graceful /\ ~out.restart
        /\ "systemctl stop" \in run
        /\ "systemctl start" \in run <=> out.stop
        /\ "systemctl restart" \in run <=> ~graceful
        /\ "reboot.sh" \in run <=> ~graceful /\ ~out.restart
        /\ "systemctl restart" \in run =>
               RunsBefore(r.cmds, "systemctl stop", "systemctl restart")
        /\ "reboot.sh" \in run =>
               RunsBefore(r.cmds, "systemctl restart", "reboot.sh")
        /\ r.err <=> r.action = "reboot" /\ ~out.script /\ ~out.reboot

\* C29: for every combination of command outcomes restartCriticalServices
\* reports the action taken (stop_start iff stop and start succeeded, restart
\* iff one of them failed and the direct restart succeeded, reboot iff the
\* direct restart failed too), runs the direct restart only after a failed
\* stop or start and the reboot only after a failed direct restart, and does
\* the same whatever the liveness checks return; the heal record holds the
\* action and detail of the most recent attempt, failed or not
C29_ReportsActionTaken ==
    /\ [](\A out \in CmdOutcomes :
            LET r == restartCriticalServices(out)
            IN  /\ ReportsActionTaken(out, r)
                /\ \A redis, mysql \in BOOLEAN :
                      restartCriticalServices(
                          [out EXCEPT !.redisActive = redis,
                                      !.mysqlActive = mysql]) = r)
    /\ [](Attempted(tick) =>
            \E out \in CmdOutcomes :
                LET r == restartCriticalServices(out)
                IN  /\ tick.cmds = r.cmds
                    /\ ocppLastHealAction = r.action
                    /\ ocppLastHealDetail = r.detail
                    /\ tick.published <=> ~r.err)
    /\ [][(TickStep /\ ~Attempted(tick')) => HealRecordUnchanged]_vars

\* C29 witness: stop failed, so start was not run; the direct restart failed
\* and the reboot script was run, and the heal record says so
C29_Witness ==
    /\ Attempted(tick)
    /\ tick.cmds = <<"is-active redis", "is-active mysqld", "systemctl stop",
                     "systemctl restart", "reboot.sh">>
    /\ ocppLastHealAction = "reboot"
    /\ ocppLastHealDetail = "reboot issued after restart failure"

----------------------------------------------------------------------------
(* Claims about the goroutines that share the wallbox (SpecMux)              *)

\* C31: under every interleaving of SetJournalOCPPStatus,
\* SetTelemetryOCPPStatus and the reads of the resolver, the code and the
\* timestamp a read obtains for a slot were written by one single Set call
\* (or are the pair the slot was constructed with)
C31_NoTornRead ==
    mux.got.complete => <<mux.got.code, mux.got.ts>> \in mux.written[mux.got.slot]

\* C31 witness: the read obtained the pair of the second Set call on the
\* journal slot, made at another time and with another code than the first
C31_Witness ==
    /\ mux.got.complete
    /\ mux.got.slot = "journal"
    /\ mux.got.code >= 0
    /\ \E p \in mux.written["journal"] :
          p[1] >= 0 /\ p[1] # mux.got.code /\ p[2] < mux.got.ts

\* a step writes one of the values the tick reads
SourceWrites ==
    \/ journalOCPPStatus' # journalOCPPStatus
    \/ journalOCPPUpdated' # journalOCPPUpdated
    \/ telemetryOCPPStatus' # telemetryOCPPStatus
    \/ telemetryOCPPUpdated' # telemetryOCPPUpdated
    \/ telOCPPStatus' # telOCPPStatus
    \/ telControlPilotStatus' # telControlPilotStatus
    \/ HasTelemetry' # HasTelemetry

\* C32: every write of a source goroutine to a value the tick reads (the two
\* slots, the raw telemetry OCPP status, the telemetry control pilot status,
\* HasTelemetry) is made while that goroutine holds ocppStatusMux for
\* writing
C32_WritesUnderLock ==
    [][SourceWrites => mux.writer \in {"watcher", "subscription"}]_vars

----------------------------------------------------------------------------
(* Claims about the reboot goroutines                                        *)

\* C33: the escalation reboot and the pilot-error reboot are fire-and-forget:
\* the tick that triggers one stamps its timestamp with the time of the tick
\* and completes; while the reboot goroutine has not returned (or never does)
\* the next tick can still run; and the goroutine, whether rebootSystem fails
\* or not, leaves the stamped timestamps (and all the loop's state) in place
C33_RebootFireAndForget ==
    /\ [][(TickStep /\ "ocpp_heal" \in tick'.spawned) =>
             /\ lastFullReboot' = clock'
             /\ tick'.published
             /\ pendingReboots' > pendingReboots]_vars
    /\ [][(TickStep /\ "pilot_error" \in tick'.spawned) =>
             /\ lastPilotErrorReboot' = clock'
             /\ tick'.published
             /\ pendingReboots' > pendingReboots]_vars
    /\ []((pendingReboots > 0 /\ tick.n < MaxTicks) => ENABLED Tick)
    /\ [][pendingReboots' < pendingReboots =>
             UNCHANGED <<clock, wvars, hvars, tick>>]_vars

\* C33 witness: a tick has run and reported after the tick that spawned the
\* escalation reboot, whose goroutine has still not returned
C33_Witness ==
    /\ pendingReboots > 0
    /\ lastFullReboot # Zero
    /\ clock > lastFullReboot
    /\ tick.spawned = {}
    /\ tick.published

----------------------------------------------------------------------------
(* Claims about the watcher task next to the polling loop (SpecExit)         *)

\* the watcher goroutine has returned
WatcherExited == watcher.pc = "exited"

\* what OCPPStatusCode returns at time `now` without the journal slot
WithoutJournal(now) ==
    IF telemetryOCPPStatus >= 0 /\ telemetryOCPPUpdated # Zero
       /\ now - telemetryOCPPUpdated < 600
    THEN telemetryOCPPStatus
    ELSE telOCPPStatus

\* C34: the watcher exiting (start failure, read error, end of stream) is not
\* fatal: the polling loop can still tick, and on every tick that is 10
\* minutes or more after the watcher's last observation (or comes with no
\* observation at all) the resolver returns the session-event code if that
\* slot is fresh and the raw telemetry value otherwise
C34_WatcherExitNotFatal ==
    /\ []((WatcherExited /\ tick.n < MaxExitTicks) => ENABLED TickExit)
    /\ [][(TickStep /\ WatcherExited
             /\ (journalOCPPUpdated = Zero \/ clock' - journalOCPPUpdated >= 600))
            => tick'.ocppCode = WithoutJournal(clock')]_vars

\* C34 witness: the watcher stored a status and exited on an error; a tick 10
\* minutes after that observation resolved another code than the journal's
C34_Witness ==
    /\ WatcherExited
    /\ watcher.err # "none"
    /\ watcher.wrote
    /\ journalOCPPStatus >= 0
    /\ tick.n > 0
    /\ clock - journalOCPPUpdated >= 600
    /\ tick.ocppCode # journalOCPPStatus

----------------------------------------------------------------------------
(* Claims about the steps of a tick (SpecSteps)                              *)

\* the timestamps the loop keeps
LoopStamps ==
    <<mismatchStart, lastRestart, lastFullReboot, pilotErrorStart,
      lastPilotErrorReboot>>

\* a step of the tick restarts the service or spawns the escalation reboot
HealActs == loop.pc = "heal" /\ (loop'.cmds # <<>> \/ "ocpp_heal" \in loop'.spawned)

\* C35: the steps of a tick run in the order snapshot refresh, detector,
\* healing controller, safety net, reporting (a failed restart attempt ends
\* the tick after the healing controller), with one timestamp for the whole
\* tick, and a tick begins only when the one before has ended; hence the
\* healing controller restarts or escalates only on a tick whose detector
\* step found pilot-connected and OCPP-indicates-disconnect both true,
\* whatever the sources wrote since
C35_StepsInOrder ==
    /\ [][tick'.n = tick.n + 1 =>
             /\ loop'.pc = "wait"
             /\ loop'.order = IF tick'.published
                              THEN <<"refresh", "detect", "heal", "net", "report">>
                              ELSE <<"refresh", "detect", "heal">>]_vars
    /\ [][clock' # clock => loop.pc = "wait" /\ loop'.now = clock']_vars
    /\ [][\A i \in 1..Len(LoopStamps) :
             LoopStamps'[i] \in {LoopStamps[i], Zero, loop.now}]_vars
    /\ [][HealActs =>
             /\ loop.pilotConnected /\ loop.ocppIndicatesDisconnect
             /\ loop.detector.state = "1"]_vars

\* C35 witness: the healing controller restarted the service on a tick whose
\* detector step found the mismatch, although the telemetry has since
\* taken the pilot away
C35_Witness ==
    /\ loop.pc = "net"
    /\ loop.cmds # <<>>
    /\ loop.pilotConnected /\ loop.ocppIndicatesDisconnect
    /\ ~PilotConnected(loop.legacy)

----------------------------------------------------------------------------
(* Claims about firmware without telemetry (SpecLegacy)                      *)

\* C36: as long as no telemetry event has been mapped (HasTelemetry false)
\* the mismatch is never active, whatever the legacy pilot fields and the
\* resolved OCPP status; the healing controller has then never restarted the
\* service nor rebooted
C36_NoTelemetryNoMismatch ==
    ~HasTelemetry =>
        /\ ocppMismatchState = "0"
        /\ mismatchStart = Zero
        /\ ~tick.pilotConnected
        /\ tick.cmds = <<>>
        /\ "ocpp_heal" \notin tick.spawned
        /\ lastRestart = Zero
        /\ lastFullReboot = Zero
        /\ ocppLastHealAction = "idle"

\* C36 witness: without telemetry, two ticks in a row saw the legacy pilot
\* charging and a resolved OCPP status that indicates a disconnect, and the
\* mismatch is not active
C36_Witness ==
    /\ ~HasTelemetry
    /\ tick.n >= 2
    /\ tick.pilotCode = 194
    /\ tick.ocppIndicatesDisconnect
    /\ clock - journalOCPPUpdated > c.OCPPMismatchSeconds
    /\ c.AutoRestartOCPP
    /\ ocppMismatchState = "0"

----------------------------------------------------------------------------
(* Claims about starting and stopping the watcher (SpecLifecycle)            *)

\* the goroutines that have not returned
RunningWatchers ==
    { id \in 1..MaxWatcherStarts : lifecycle.pc[id] \in {"start", "select", "scan"} }

\* C37: under every interleaving of StartOCPPJournalWatcher,
\* StopOCPPJournalWatcher and the exit of a watcher goroutine there is at
\* most one watcher goroutine and one tail process (a Start while a watcher
\* runs starts nothing), the channel of every running watcher that was not
\* told to stop is still the one in w.journalStopCh, so that a later Stop
\* reaches it, and Stop closes neither a nil nor a closed channel
C37_OneStoppableWatcher ==
    /\ Cardinality(RunningWatchers) <= 1
    /\ Cardinality({ id \in 1..MaxWatcherStarts : lifecycle.process[id] }) <= 1
    /\ \A id \in RunningWatchers :
          id \notin lifecycle.closed => lifecycle.journalStopCh = id
    /\ ~lifecycle.panicked

----------------------------------------------------------------------------
(* Claims about the progress of the healing controller (SpecReappearLive)    *)

\* a tick has invoked a reboot: rebootSystem run by restartCriticalServices,
\* or the escalation goroutine started
RebootActionInvoked == RebootInvoked(tick) \/ "ocpp_heal" \in tick.spawned

\* a tick did not find the mismatch
MismatchInterrupted == tick.n > 0 /\ ~Conjunction(tick)

\* C38: with auto-heal and full-reboot escalation enabled, when ticks keep
\* occurring and every one of them finds the mismatch, a reboot action is
\* eventually invoked, whether the restart commands succeed or fail
C38_EventuallyReboot ==
    (c.AutoRestartOCPP /\ c.OCPPFullReboot)
        => <>(MismatchInterrupted \/ RebootActionInvoked)

\* C38 witness: every restart allowed succeeded, the mismatch was found on
\* every tick, and the tick starts the escalation reboot
C38_Witness ==
    /\ "ocpp_heal" \in tick.spawned
    /\ Conjunction(tick)
    /\ ocppRestartCount >= c.OCPPMaxRestarts
    /\ ocppLastHealAction \in {"stop_start", "restart"}
    /\ clock - mismatchStart >= c.OCPPRestartCooldown

====
